---- MODULE Spec2Model ----
(***************************************************************************)
(* A model of doi.py, the bibliography enrichment script.                  *)
(*                                                                         *)
(* A str is modelled as the sequence of its code points (the ord of each   *)
(* character, 0 to 1114111), read with Len, SubSeq and \o; positions are   *)
(* 1-based where Python's are 0-based. Str writes the text of an ASCII     *)
(* literal. The regular expressions of the script are written out as       *)
(* matchers over these sequences.                                          *)
(***************************************************************************)
EXTENDS Integers, Sequences, FiniteSets, TLC

VARIABLES
    \* clean_protected_case applied once and twice to one text
    n_text, n_once, n_twice, n_pc,
    \* one call of http_get: the server's answers and the call's outcome
    h_resps, h_result, h_pc,
    \* one call of search_doi_by_metadata: the query title, the server's
    \* answer (status and candidate items) and the call's outcome
    s_title, s_status, s_items, s_result, s_pc,
    \* one call of fetch_bibtex_from_doi: the identifier, the two services'
    \* answers and the call's outcome
    f_doi, f_primary, f_secondary, f_result, f_pc,
    \* the boundary scan of one text
    sc_text, sc_spans, sc_pc,
    \* process_bib_file
    run,           \* which invocation of process_bib_file in this process
    raw_text,      \* the text read from the input file
    entries,       \* what bibtexparser.load returned for the file
    matches,       \* the record spans entry_pattern.finditer yields
    idx,           \* the span the loop is at (1-based)
    pc,            \* where the run is: b1..b5, raw, append, splice, done, aborted
    repl,          \* the loop's repl: [some, text] and where it came from
    replacements,  \* the list replacements
    used_dois,     \* the module's set used_dois
    out,           \* the output file: how often it was written, and its text
    origins,       \* history: for each replacement, the branch and identifier
    log            \* history: what the run did, in order

normVars == <<n_text, n_once, n_twice, n_pc>>
httpVars == <<h_resps, h_result, h_pc>>
searchVars == <<s_title, s_status, s_items, s_result, s_pc>>
fetchVars == <<f_doi, f_primary, f_secondary, f_result, f_pc>>
scanVars == <<sc_text, sc_spans, sc_pc>>
pipeVars == <<run, raw_text, entries, matches, idx, pc, repl, replacements, used_dois,
              out, origins, log>>
vars == <<n_text, n_once, n_twice, n_pc, h_resps, h_result, h_pc,
          s_title, s_status, s_items, s_result, s_pc,
          f_doi, f_primary, f_secondary, f_result, f_pc, sc_text, sc_spans, sc_pc,
          run, raw_text, entries, matches, idx, pc, repl, replacements, used_dois,
          out, origins, log>>

(***************************************************************************)
(* Strings                                                                 *)
(***************************************************************************)
\* the printable ASCII characters in code order: from the space (32) to the
\* underscore (95), and from a (97) to the tilde (126)
AsciiLow == " !\"#$%&'()*+,-./0123456789:;<=>?@ABCDEFGHIJKLMNOPQRSTUVWXYZ[\\]^_"

AsciiHigh == "abcdefghijklmnopqrstuvwxyz{|}~"

OrdOf ==
    [c \in {SubSeq(AsciiLow, k, k) : k \in 1..Len(AsciiLow)}
             \cup {SubSeq(AsciiHigh, k, k) : k \in 1..Len(AsciiHigh)} \cup {"\t", "\n"} |->
        IF c = "\t" THEN 9
        ELSE IF c = "\n" THEN 10
        ELSE IF \E k \in 1..Len(AsciiLow) : SubSeq(AsciiLow, k, k) = c
        THEN 31 + (CHOOSE k \in 1..Len(AsciiLow) : SubSeq(AsciiLow, k, k) = c)
        ELSE 96 + (CHOOSE k \in 1..Len(AsciiHigh) : SubSeq(AsciiHigh, k, k) = c)]

\* ord(c) of a one-character ASCII literal
Ord(c) == OrdOf[c]

\* the str that an ASCII literal of the script denotes
Str(lit) == [k \in 1..Len(lit) |-> OrdOf[SubSeq(lit, k, k)]]

\* the value of reading past either end of a str: no character
NoChar == 0 - 1

\* s[i-1], or NoChar outside s
Ch(s, i) == IF i >= 1 /\ i <= Len(s) THEN s[i] ELSE NoChar

\* the code points in one of the ranges <<first, last>> of a table
InRanges(table) == UNION {r[1]..r[2] : r \in table}

\* [A-Za-z]
IsLetter(c) == c \in (Ord("A")..Ord("Z")) \cup (Ord("a")..Ord("z"))

\* The characters that \w of a str pattern matches: the alphanumerics of
\* Unicode (str.isalnum) and the underscore, as ranges of code points.
WordRanges ==
    {<<48, 57>>, <<65, 90>>, <<95, 95>>, <<97, 122>>, <<170, 170>>, <<178, 179>>, <<181, 181>>,
     <<185, 186>>, <<188, 190>>, <<192, 214>>, <<216, 246>>, <<248, 705>>, <<710, 721>>,
     <<736, 740>>, <<748, 748>>, <<750, 750>>, <<880, 884>>, <<886, 887>>, <<890, 893>>,
     <<895, 895>>, <<902, 902>>, <<904, 906>>, <<908, 908>>, <<910, 929>>, <<931, 1013>>,
     <<1015, 1153>>, <<1162, 1327>>, <<1329, 1366>>, <<1369, 1369>>, <<1376, 1416>>,
     <<1488, 1514>>, <<1519, 1522>>, <<1568, 1610>>, <<1632, 1641>>, <<1646, 1647>>,
     <<1649, 1747>>, <<1749, 1749>>, <<1765, 1766>>, <<1774, 1788>>, <<1791, 1791>>,
     <<1808, 1808>>, <<1810, 1839>>, <<1869, 1957>>, <<1969, 1969>>, <<1984, 2026>>,
     <<2036, 2037>>, <<2042, 2042>>, <<2048, 2069>>, <<2074, 2074>>, <<2084, 2084>>,
     <<2088, 2088>>, <<2112, 2136>>, <<2144, 2154>>, <<2160, 2183>>, <<2185, 2190>>,
     <<2208, 2249>>, <<2308, 2361>>, <<2365, 2365>>, <<2384, 2384>>, <<2392, 2401>>,
     <<2406, 2415>>, <<2417, 2432>>, <<2437, 2444>>, <<2447, 2448>>, <<2451, 2472>>,
     <<2474, 2480>>, <<2482, 2482>>, <<2486, 2489>>, <<2493, 2493>>, <<2510, 2510>>,
     <<2524, 2525>>, <<2527, 2529>>, <<2534, 2545>>, <<2548, 2553>>, <<2556, 2556>>,
     <<2565, 2570>>, <<2575, 2576>>, <<2579, 2600>>, <<2602, 2608>>, <<2610, 2611>>,
     <<2613, 2614>>, <<2616, 2617>>, <<2649, 2652>>, <<2654, 2654>>, <<2662, 2671>>,
     <<2674, 2676>>, <<2693, 2701>>, <<2703, 2705>>, <<2707, 2728>>, <<2730, 2736>>,
     <<2738, 2739>>, <<2741, 2745>>, <<2749, 2749>>, <<2768, 2768>>, <<2784, 2785>>,
     <<2790, 2799>>, <<2809, 2809>>, <<2821, 2828>>, <<2831, 2832>>, <<2835, 2856>>,
     <<2858, 2864>>, <<2866, 2867>>, <<2869, 2873>>, <<2877, 2877>>, <<2908, 2909>>,
     <<2911, 2913>>, <<2918, 2927>>, <<2929, 2935>>, <<2947, 2947>>, <<2949, 2954>>,
     <<2958, 2960>>, <<2962, 2965>>, <<2969, 2970>>, <<2972, 2972>>, <<2974, 2975>>,
     <<2979, 2980>>, <<2984, 2986>>, <<2990, 3001>>, <<3024, 3024>>, <<3046, 3058>>,
     <<3077, 3084>>, <<3086, 3088>>, <<3090, 3112>>, <<3114, 3129>>, <<3133, 3133>>,
     <<3160, 3162>>, <<3165, 3165>>, <<3168, 3169>>, <<3174, 3183>>, <<3192, 3198>>,
     <<3200, 3200>>, <<3205, 3212>>, <<3214, 3216>>, <<3218, 3240>>, <<3242, 3251>>,
     <<3253, 3257>>, <<3261, 3261>>, <<3293, 3294>>, <<3296, 3297>>, <<3302, 3311>>,
     <<3313, 3314>>, <<3332, 3340>>, <<3342, 3344>>, <<3346, 3386>>, <<3389, 3389>>,
     <<3406, 3406>>, <<3412, 3414>>, <<3416, 3425>>, <<3430, 3448>>, <<3450, 3455>>,
     <<3461, 3478>>, <<3482, 3505>>, <<3507, 3515>>, <<3517, 3517>>, <<3520, 3526>>,
     <<3558, 3567>>, <<3585, 3632>>, <<3634, 3635>>, <<3648, 3654>>, <<3664, 3673>>,
     <<3713, 3714>>, <<3716, 3716>>, <<3718, 3722>>, <<3724, 3747>>, <<3749, 3749>>,
     <<3751, 3760>>, <<3762, 3763>>, <<3773, 3773>>, <<3776, 3780>>, <<3782, 3782>>,
     <<3792, 3801>>, <<3804, 3807>>, <<3840, 3840>>, <<3872, 3891>>, <<3904, 3911>>,
     <<3913, 3948>>, <<3976, 3980>>, <<4096, 4138>>, <<4159, 4169>>, <<4176, 4181>>,
     <<4186, 4189>>, <<4193, 4193>>, <<4197, 4198>>, <<4206, 4208>>, <<4213, 4225>>,
     <<4238, 4238>>, <<4240, 4249>>, <<4256, 4293>>, <<4295, 4295>>, <<4301, 4301>>,
     <<4304, 4346>>, <<4348, 4680>>, <<4682, 4685>>, <<4688, 4694>>, <<4696, 4696>>,
     <<4698, 4701>>, <<4704, 4744>>, <<4746, 4749>>, <<4752, 4784>>, <<4786, 4789>>,
     <<4792, 4798>>, <<4800, 4800>>, <<4802, 4805>>, <<4808, 4822>>, <<4824, 4880>>,
     <<4882, 4885>>, <<4888, 4954>>, <<4969, 4988>>, <<4992, 5007>>, <<5024, 5109>>,
     <<5112, 5117>>, <<5121, 5740>>, <<5743, 5759>>, <<5761, 5786>>, <<5792, 5866>>,
     <<5870, 5880>>, <<5888, 5905>>, <<5919, 5937>>, <<5952, 5969>>, <<5984, 5996>>,
     <<5998, 6000>>, <<6016, 6067>>, <<6103, 6103>>, <<6108, 6108>>, <<6112, 6121>>,
     <<6128, 6137>>, <<6160, 6169>>, <<6176, 6264>>, <<6272, 6276>>, <<6279, 6312>>,
     <<6314, 6314>>, <<6320, 6389>>, <<6400, 6430>>, <<6470, 6509>>, <<6512, 6516>>,
     <<6528, 6571>>, <<6576, 6601>>, <<6608, 6618>>, <<6656, 6678>>, <<6688, 6740>>,
     <<6784, 6793>>, <<6800, 6809>>, <<6823, 6823>>, <<6917, 6963>>, <<6981, 6988>>,
     <<6992, 7001>>, <<7043, 7072>>, <<7086, 7141>>, <<7168, 7203>>, <<7232, 7241>>,
     <<7245, 7293>>, <<7296, 7304>>, <<7312, 7354>>, <<7357, 7359>>, <<7401, 7404>>,
     <<7406, 7411>>, <<7413, 7414>>, <<7418, 7418>>, <<7424, 7615>>, <<7680, 7957>>,
     <<7960, 7965>>, <<7968, 8005>>, <<8008, 8013>>, <<8016, 8023>>, <<8025, 8025>>,
     <<8027, 8027>>, <<8029, 8029>>, <<8031, 8061>>, <<8064, 8116>>, <<8118, 8124>>,
     <<8126, 8126>>, <<8130, 8132>>, <<8134, 8140>>, <<8144, 8147>>, <<8150, 8155>>,
     <<8160, 8172>>, <<8178, 8180>>, <<8182, 8188>>, <<8304, 8305>>, <<8308, 8313>>,
     <<8319, 8329>>, <<8336, 8348>>, <<8450, 8450>>, <<8455, 8455>>, <<8458, 8467>>,
     <<8469, 8469>>, <<8473, 8477>>, <<8484, 8484>>, <<8486, 8486>>, <<8488, 8488>>,
     <<8490, 8493>>, <<8495, 8505>>, <<8508, 8511>>, <<8517, 8521>>, <<8526, 8526>>,
     <<8528, 8585>>, <<9312, 9371>>, <<9450, 9471>>, <<10102, 10131>>, <<11264, 11492>>,
     <<11499, 11502>>, <<11506, 11507>>, <<11517, 11517>>, <<11520, 11557>>, <<11559, 11559>>,
     <<11565, 11565>>, <<11568, 11623>>, <<11631, 11631>>, <<11648, 11670>>, <<11680, 11686>>,
     <<11688, 11694>>, <<11696, 11702>>, <<11704, 11710>>, <<11712, 11718>>, <<11720, 11726>>,
     <<11728, 11734>>, <<11736, 11742>>, <<11823, 11823>>, <<12293, 12295>>, <<12321, 12329>>,
     <<12337, 12341>>, <<12344, 12348>>, <<12353, 12438>>, <<12445, 12447>>, <<12449, 12538>>,
     <<12540, 12543>>, <<12549, 12591>>, <<12593, 12686>>, <<12690, 12693>>, <<12704, 12735>>,
     <<12784, 12799>>, <<12832, 12841>>, <<12872, 12879>>, <<12881, 12895>>, <<12928, 12937>>,
     <<12977, 12991>>, <<13312, 19903>>, <<19968, 42124>>, <<42192, 42237>>, <<42240, 42508>>,
     <<42512, 42539>>, <<42560, 42606>>, <<42623, 42653>>, <<42656, 42735>>, <<42775, 42783>>,
     <<42786, 42888>>, <<42891, 42954>>, <<42960, 42961>>, <<42963, 42963>>, <<42965, 42969>>,
     <<42994, 43009>>, <<43011, 43013>>, <<43015, 43018>>, <<43020, 43042>>, <<43056, 43061>>,
     <<43072, 43123>>, <<43138, 43187>>, <<43216, 43225>>, <<43250, 43255>>, <<43259, 43259>>,
     <<43261, 43262>>, <<43264, 43301>>, <<43312, 43334>>, <<43360, 43388>>, <<43396, 43442>>,
     <<43471, 43481>>, <<43488, 43492>>, <<43494, 43518>>, <<43520, 43560>>, <<43584, 43586>>,
     <<43588, 43595>>, <<43600, 43609>>, <<43616, 43638>>, <<43642, 43642>>, <<43646, 43695>>,
     <<43697, 43697>>, <<43701, 43702>>, <<43705, 43709>>, <<43712, 43712>>, <<43714, 43714>>,
     <<43739, 43741>>, <<43744, 43754>>, <<43762, 43764>>, <<43777, 43782>>, <<43785, 43790>>,
     <<43793, 43798>>, <<43808, 43814>>, <<43816, 43822>>, <<43824, 43866>>, <<43868, 43881>>,
     <<43888, 44002>>, <<44016, 44025>>, <<44032, 55203>>, <<55216, 55238>>, <<55243, 55291>>,
     <<63744, 64109>>, <<64112, 64217>>, <<64256, 64262>>, <<64275, 64279>>, <<64285, 64285>>,
     <<64287, 64296>>, <<64298, 64310>>, <<64312, 64316>>, <<64318, 64318>>, <<64320, 64321>>,
     <<64323, 64324>>, <<64326, 64433>>, <<64467, 64829>>, <<64848, 64911>>, <<64914, 64967>>,
     <<65008, 65019>>, <<65136, 65140>>, <<65142, 65276>>, <<65296, 65305>>, <<65313, 65338>>,
     <<65345, 65370>>, <<65382, 65470>>, <<65474, 65479>>, <<65482, 65487>>, <<65490, 65495>>,
     <<65498, 65500>>, <<65536, 65547>>, <<65549, 65574>>, <<65576, 65594>>, <<65596, 65597>>,
     <<65599, 65613>>, <<65616, 65629>>, <<65664, 65786>>, <<65799, 65843>>, <<65856, 65912>>,
     <<65930, 65931>>, <<66176, 66204>>, <<66208, 66256>>, <<66273, 66299>>, <<66304, 66339>>,
     <<66349, 66378>>, <<66384, 66421>>, <<66432, 66461>>, <<66464, 66499>>, <<66504, 66511>>,
     <<66513, 66517>>, <<66560, 66717>>, <<66720, 66729>>, <<66736, 66771>>, <<66776, 66811>>,
     <<66816, 66855>>, <<66864, 66915>>, <<66928, 66938>>, <<66940, 66954>>, <<66956, 66962>>,
     <<66964, 66965>>, <<66967, 66977>>, <<66979, 66993>>, <<66995, 67001>>, <<67003, 67004>>,
     <<67072, 67382>>, <<67392, 67413>>, <<67424, 67431>>, <<67456, 67461>>, <<67463, 67504>>,
     <<67506, 67514>>, <<67584, 67589>>, <<67592, 67592>>, <<67594, 67637>>, <<67639, 67640>>,
     <<67644, 67644>>, <<67647, 67669>>, <<67672, 67702>>, <<67705, 67742>>, <<67751, 67759>>,
     <<67808, 67826>>, <<67828, 67829>>, <<67835, 67867>>, <<67872, 67897>>, <<67968, 68023>>,
     <<68028, 68047>>, <<68050, 68096>>, <<68112, 68115>>, <<68117, 68119>>, <<68121, 68149>>,
     <<68160, 68168>>, <<68192, 68222>>, <<68224, 68255>>, <<68288, 68295>>, <<68297, 68324>>,
     <<68331, 68335>>, <<68352, 68405>>, <<68416, 68437>>, <<68440, 68466>>, <<68472, 68497>>,
     <<68521, 68527>>, <<68608, 68680>>, <<68736, 68786>>, <<68800, 68850>>, <<68858, 68899>>,
     <<68912, 68921>>, <<69216, 69246>>, <<69248, 69289>>, <<69296, 69297>>, <<69376, 69415>>,
     <<69424, 69445>>, <<69457, 69460>>, <<69488, 69505>>, <<69552, 69579>>, <<69600, 69622>>,
     <<69635, 69687>>, <<69714, 69743>>, <<69745, 69746>>, <<69749, 69749>>, <<69763, 69807>>,
     <<69840, 69864>>, <<69872, 69881>>, <<69891, 69926>>, <<69942, 69951>>, <<69956, 69956>>,
     <<69959, 69959>>, <<69968, 70002>>, <<70006, 70006>>, <<70019, 70066>>, <<70081, 70084>>,
     <<70096, 70106>>, <<70108, 70108>>, <<70113, 70132>>, <<70144, 70161>>, <<70163, 70187>>,
     <<70272, 70278>>, <<70280, 70280>>, <<70282, 70285>>, <<70287, 70301>>, <<70303, 70312>>,
     <<70320, 70366>>, <<70384, 70393>>, <<70405, 70412>>, <<70415, 70416>>, <<70419, 70440>>,
     <<70442, 70448>>, <<70450, 70451>>, <<70453, 70457>>, <<70461, 70461>>, <<70480, 70480>>,
     <<70493, 70497>>, <<70656, 70708>>, <<70727, 70730>>, <<70736, 70745>>, <<70751, 70753>>,
     <<70784, 70831>>, <<70852, 70853>>, <<70855, 70855>>, <<70864, 70873>>, <<71040, 71086>>,
     <<71128, 71131>>, <<71168, 71215>>, <<71236, 71236>>, <<71248, 71257>>, <<71296, 71338>>,
     <<71352, 71352>>, <<71360, 71369>>, <<71424, 71450>>, <<71472, 71483>>, <<71488, 71494>>,
     <<71680, 71723>>, <<71840, 71922>>, <<71935, 71942>>, <<71945, 71945>>, <<71948, 71955>>,
     <<71957, 71958>>, <<71960, 71983>>, <<71999, 71999>>, <<72001, 72001>>, <<72016, 72025>>,
     <<72096, 72103>>, <<72106, 72144>>, <<72161, 72161>>, <<72163, 72163>>, <<72192, 72192>>,
     <<72203, 72242>>, <<72250, 72250>>, <<72272, 72272>>, <<72284, 72329>>, <<72349, 72349>>,
     <<72368, 72440>>, <<72704, 72712>>, <<72714, 72750>>, <<72768, 72768>>, <<72784, 72812>>,
     <<72818, 72847>>, <<72960, 72966>>, <<72968, 72969>>, <<72971, 73008>>, <<73030, 73030>>,
     <<73040, 73049>>, <<73056, 73061>>, <<73063, 73064>>, <<73066, 73097>>, <<73112, 73112>>,
     <<73120, 73129>>, <<73440, 73458>>, <<73648, 73648>>, <<73664, 73684>>, <<73728, 74649>>,
     <<74752, 74862>>, <<74880, 75075>>, <<77712, 77808>>, <<77824, 78894>>, <<82944, 83526>>,
     <<92160, 92728>>, <<92736, 92766>>, <<92768, 92777>>, <<92784, 92862>>, <<92864, 92873>>,
     <<92880, 92909>>, <<92928, 92975>>, <<92992, 92995>>, <<93008, 93017>>, <<93019, 93025>>,
     <<93027, 93047>>, <<93053, 93071>>, <<93760, 93846>>, <<93952, 94026>>, <<94032, 94032>>,
     <<94099, 94111>>, <<94176, 94177>>, <<94179, 94179>>, <<94208, 100343>>,
     <<100352, 101589>>, <<101632, 101640>>, <<110576, 110579>>, <<110581, 110587>>,
     <<110589, 110590>>, <<110592, 110882>>, <<110928, 110930>>, <<110948, 110951>>,
     <<110960, 111355>>, <<113664, 113770>>, <<113776, 113788>>, <<113792, 113800>>,
     <<113808, 113817>>, <<119520, 119539>>, <<119648, 119672>>, <<119808, 119892>>,
     <<119894, 119964>>, <<119966, 119967>>, <<119970, 119970>>, <<119973, 119974>>,
     <<119977, 119980>>, <<119982, 119993>>, <<119995, 119995>>, <<119997, 120003>>,
     <<120005, 120069>>, <<120071, 120074>>, <<120077, 120084>>, <<120086, 120092>>,
     <<120094, 120121>>, <<120123, 120126>>, <<120128, 120132>>, <<120134, 120134>>,
     <<120138, 120144>>, <<120146, 120485>>, <<120488, 120512>>, <<120514, 120538>>,
     <<120540, 120570>>, <<120572, 120596>>, <<120598, 120628>>, <<120630, 120654>>,
     <<120656, 120686>>, <<120688, 120712>>, <<120714, 120744>>, <<120746, 120770>>,
     <<120772, 120779>>, <<120782, 120831>>, <<122624, 122654>>, <<123136, 123180>>,
     <<123191, 123197>>, <<123200, 123209>>, <<123214, 123214>>, <<123536, 123565>>,
     <<123584, 123627>>, <<123632, 123641>>, <<124896, 124902>>, <<124904, 124907>>,
     <<124909, 124910>>, <<124912, 124926>>, <<124928, 125124>>, <<125127, 125135>>,
     <<125184, 125251>>, <<125259, 125259>>, <<125264, 125273>>, <<126065, 126123>>,
     <<126125, 126127>>, <<126129, 126132>>, <<126209, 126253>>, <<126255, 126269>>,
     <<126464, 126467>>, <<126469, 126495>>, <<126497, 126498>>, <<126500, 126500>>,
     <<126503, 126503>>, <<126505, 126514>>, <<126516, 126519>>, <<126521, 126521>>,
     <<126523, 126523>>, <<126530, 126530>>, <<126535, 126535>>, <<126537, 126537>>,
     <<126539, 126539>>, <<126541, 126543>>, <<126545, 126546>>, <<126548, 126548>>,
     <<126551, 126551>>, <<126553, 126553>>, <<126555, 126555>>, <<126557, 126557>>,
     <<126559, 126559>>, <<126561, 126562>>, <<126564, 126564>>, <<126567, 126570>>,
     <<126572, 126578>>, <<126580, 126583>>, <<126585, 126588>>, <<126590, 126590>>,
     <<126592, 126601>>, <<126603, 126619>>, <<126625, 126627>>, <<126629, 126633>>,
     <<126635, 126651>>, <<127232, 127244>>, <<130032, 130041>>, <<131072, 173791>>,
     <<173824, 177976>>, <<177984, 178205>>, <<178208, 183969>>, <<183984, 191456>>,
     <<194560, 195101>>, <<196608, 201546>>}

WordChars == InRanges(WordRanges)

\* \w
IsWord(c) == c \in WordChars

\* The white space of \s and of str.strip() (str.isspace): the ASCII white
\* space with the separators U+001C to U+001F, the next line and no-break space
\* marks, and the space separators of Unicode.
WhiteSpace ==
    (9..13) \cup (28..32) \cup {133, 160, 5760} \cup (8192..8202)
        \cup {8232, 8233, 8239, 8287, 12288}

\* \s
IsSpace(c) == c \in WhiteSpace

\* the least and the greatest element of a non-empty set of positions
Least(S) == CHOOSE x \in S : \A y \in S : x <= y

Greatest(S) == CHOOSE x \in S : \A y \in S : y <= x

\* the nearest position j >= i with no whitespace in i..j-1 and none at j (\s*
\* is greedy, and what follows it in the patterns is never whitespace)
SkipSpace(s, i) ==
    LET stops == {j \in i..(Len(s) + 1) : ~IsSpace(Ch(s, j))}
    IN  IF i > Len(s) THEN i ELSE Least(stops)

\* the first position >= i of s that holds c, or 0
FindChar(s, c, i) ==
    LET at == {j \in i..Len(s) : Ch(s, j) = c}
    IN  IF at = {} THEN 0 ELSE Least(at)

\* the pieces of a sequence of strs joined in order
RECURSIVE JoinRange(_, _, _)
JoinRange(pieces, lo, hi) ==
    IF lo > hi THEN <<>>
    ELSE IF lo = hi THEN pieces[lo]
    ELSE LET mid == (lo + hi) \div 2
         IN  JoinRange(pieces, lo, mid) \o JoinRange(pieces, mid + 1, hi)

Join(pieces) == JoinRange(pieces, 1, Len(pieces))

\* s[i-1:i-1+len(lit)] == lit
LitAt(s, lit, i) == i >= 1 /\ i + Len(lit) - 1 <= Len(s)
                    /\ SubSeq(s, i, i + Len(lit) - 1) = lit

\* the strs over alphabet of length at most n
RECURSIVE StringsUpTo(_, _)
StringsUpTo(alphabet, n) ==
    IF n = 0 THEN {<<>>}
    ELSE LET shorter == StringsUpTo(alphabet, n - 1)
         IN  shorter \cup {Append(s, c) : s \in shorter, c \in alphabet}

\* The characters that str.lower() changes into one other character, as runs
\* <<first, last, step, shift>>: every step-th code point from first to last
\* becomes the code point shift further on. The capital sigma is apart: its
\* lower case depends on where it stands.
LowerRuns ==
    {<<65, 90, 1, 32>>, <<192, 214, 1, 32>>, <<216, 222, 1, 32>>, <<256, 302, 2, 1>>,
     <<306, 310, 2, 1>>, <<313, 327, 2, 1>>, <<330, 374, 2, 1>>, <<376, 376, 1, -121>>,
     <<377, 381, 2, 1>>, <<385, 385, 1, 210>>, <<386, 388, 2, 1>>, <<390, 390, 1, 206>>,
     <<391, 391, 1, 1>>, <<393, 394, 1, 205>>, <<395, 395, 1, 1>>, <<398, 398, 1, 79>>,
     <<399, 399, 1, 202>>, <<400, 400, 1, 203>>, <<401, 401, 1, 1>>, <<403, 403, 1, 205>>,
     <<404, 404, 1, 207>>, <<406, 406, 1, 211>>, <<407, 407, 1, 209>>, <<408, 408, 1, 1>>,
     <<412, 412, 1, 211>>, <<413, 413, 1, 213>>, <<415, 415, 1, 214>>, <<416, 420, 2, 1>>,
     <<422, 422, 1, 218>>, <<423, 423, 1, 1>>, <<425, 425, 1, 218>>, <<428, 428, 1, 1>>,
     <<430, 430, 1, 218>>, <<431, 431, 1, 1>>, <<433, 434, 1, 217>>, <<435, 437, 2, 1>>,
     <<439, 439, 1, 219>>, <<440, 440, 1, 1>>, <<444, 444, 1, 1>>, <<452, 452, 1, 2>>,
     <<453, 453, 1, 1>>, <<455, 455, 1, 2>>, <<456, 456, 1, 1>>, <<458, 458, 1, 2>>,
     <<459, 475, 2, 1>>, <<478, 494, 2, 1>>, <<497, 497, 1, 2>>, <<498, 500, 2, 1>>,
     <<502, 502, 1, -97>>, <<503, 503, 1, -56>>, <<504, 542, 2, 1>>, <<544, 544, 1, -130>>,
     <<546, 562, 2, 1>>, <<570, 570, 1, 10795>>, <<571, 571, 1, 1>>, <<573, 573, 1, -163>>,
     <<574, 574, 1, 10792>>, <<577, 577, 1, 1>>, <<579, 579, 1, -195>>, <<580, 580, 1, 69>>,
     <<581, 581, 1, 71>>, <<582, 590, 2, 1>>, <<880, 882, 2, 1>>, <<886, 886, 1, 1>>,
     <<895, 895, 1, 116>>, <<902, 902, 1, 38>>, <<904, 906, 1, 37>>, <<908, 908, 1, 64>>,
     <<910, 911, 1, 63>>, <<913, 929, 1, 32>>, <<932, 939, 1, 32>>, <<975, 975, 1, 8>>,
     <<984, 1006, 2, 1>>, <<1012, 1012, 1, -60>>, <<1015, 1015, 1, 1>>, <<1017, 1017, 1, -7>>,
     <<1018, 1018, 1, 1>>, <<1021, 1023, 1, -130>>, <<1024, 1039, 1, 80>>,
     <<1040, 1071, 1, 32>>, <<1120, 1152, 2, 1>>, <<1162, 1214, 2, 1>>, <<1216, 1216, 1, 15>>,
     <<1217, 1229, 2, 1>>, <<1232, 1326, 2, 1>>, <<1329, 1366, 1, 48>>, <<4256, 4293, 1, 7264>>,
     <<4295, 4295, 1, 7264>>, <<4301, 4301, 1, 7264>>, <<5024, 5103, 1, 38864>>,
     <<5104, 5109, 1, 8>>, <<7312, 7354, 1, -3008>>, <<7357, 7359, 1, -3008>>,
     <<7680, 7828, 2, 1>>, <<7838, 7838, 1, -7615>>, <<7840, 7934, 2, 1>>,
     <<7944, 7951, 1, -8>>, <<7960, 7965, 1, -8>>, <<7976, 7983, 1, -8>>, <<7992, 7999, 1, -8>>,
     <<8008, 8013, 1, -8>>, <<8025, 8031, 2, -8>>, <<8040, 8047, 1, -8>>, <<8072, 8079, 1, -8>>,
     <<8088, 8095, 1, -8>>, <<8104, 8111, 1, -8>>, <<8120, 8121, 1, -8>>,
     <<8122, 8123, 1, -74>>, <<8124, 8124, 1, -9>>, <<8136, 8139, 1, -86>>,
     <<8140, 8140, 1, -9>>, <<8152, 8153, 1, -8>>, <<8154, 8155, 1, -100>>,
     <<8168, 8169, 1, -8>>, <<8170, 8171, 1, -112>>, <<8172, 8172, 1, -7>>,
     <<8184, 8185, 1, -128>>, <<8186, 8187, 1, -126>>, <<8188, 8188, 1, -9>>,
     <<8486, 8486, 1, -7517>>, <<8490, 8490, 1, -8383>>, <<8491, 8491, 1, -8262>>,
     <<8498, 8498, 1, 28>>, <<8544, 8559, 1, 16>>, <<8579, 8579, 1, 1>>, <<9398, 9423, 1, 26>>,
     <<11264, 11311, 1, 48>>, <<11360, 11360, 1, 1>>, <<11362, 11362, 1, -10743>>,
     <<11363, 11363, 1, -3814>>, <<11364, 11364, 1, -10727>>, <<11367, 11371, 2, 1>>,
     <<11373, 11373, 1, -10780>>, <<11374, 11374, 1, -10749>>, <<11375, 11375, 1, -10783>>,
     <<11376, 11376, 1, -10782>>, <<11378, 11378, 1, 1>>, <<11381, 11381, 1, 1>>,
     <<11390, 11391, 1, -10815>>, <<11392, 11490, 2, 1>>, <<11499, 11501, 2, 1>>,
     <<11506, 11506, 1, 1>>, <<42560, 42604, 2, 1>>, <<42624, 42650, 2, 1>>,
     <<42786, 42798, 2, 1>>, <<42802, 42862, 2, 1>>, <<42873, 42875, 2, 1>>,
     <<42877, 42877, 1, -35332>>, <<42878, 42886, 2, 1>>, <<42891, 42891, 1, 1>>,
     <<42893, 42893, 1, -42280>>, <<42896, 42898, 2, 1>>, <<42902, 42920, 2, 1>>,
     <<42922, 42922, 1, -42308>>, <<42923, 42923, 1, -42319>>, <<42924, 42924, 1, -42315>>,
     <<42925, 42925, 1, -42305>>, <<42926, 42926, 1, -42308>>, <<42928, 42928, 1, -42258>>,
     <<42929, 42929, 1, -42282>>, <<42930, 42930, 1, -42261>>, <<42931, 42931, 1, 928>>,
     <<42932, 42946, 2, 1>>, <<42948, 42948, 1, -48>>, <<42949, 42949, 1, -42307>>,
     <<42950, 42950, 1, -35384>>, <<42951, 42953, 2, 1>>, <<42960, 42960, 1, 1>>,
     <<42966, 42968, 2, 1>>, <<42997, 42997, 1, 1>>, <<65313, 65338, 1, 32>>,
     <<66560, 66599, 1, 40>>, <<66736, 66771, 1, 40>>, <<66928, 66938, 1, 39>>,
     <<66940, 66954, 1, 39>>, <<66956, 66962, 1, 39>>, <<66964, 66965, 1, 39>>,
     <<68736, 68786, 1, 64>>, <<71840, 71871, 1, 32>>, <<93760, 93791, 1, 32>>,
     <<125184, 125217, 1, 34>>}

\* the capital I with a dot above, which str.lower() changes into two
\* characters: i and the combining dot above
DottedCapitalI == 304

CapitalSigma == 931

SmallSigma == 963

SmallFinalSigma == 962

\* str.lower() on one character that is no capital sigma: a str of one or two
\* characters
LowerCh(c) ==
    LET runs == {r \in LowerRuns : r[1] <= c /\ c <= r[2] /\ (c - r[1]) % r[3] = 0}
    IN  IF c = DottedCapitalI THEN <<Ord("i"), 775>>
        ELSE IF runs = {} THEN <<c>>
        ELSE <<c + (CHOOSE r \in runs : TRUE)[4]>>

\* the cased characters (str.islower, str.isupper or str.istitle), and those
\* that the final-sigma rule of str.lower() looks through
CasedRanges ==
    {<<65, 90>>, <<97, 122>>, <<170, 170>>, <<181, 181>>, <<186, 186>>, <<192, 214>>,
     <<216, 246>>, <<248, 442>>, <<444, 447>>, <<452, 659>>, <<661, 696>>, <<704, 705>>,
     <<736, 740>>, <<837, 837>>, <<880, 883>>, <<886, 887>>, <<890, 893>>, <<895, 895>>,
     <<902, 902>>, <<904, 906>>, <<908, 908>>, <<910, 929>>, <<931, 1013>>, <<1015, 1153>>,
     <<1162, 1327>>, <<1329, 1366>>, <<1376, 1416>>, <<4256, 4293>>, <<4295, 4295>>,
     <<4301, 4301>>, <<4304, 4346>>, <<4349, 4351>>, <<5024, 5109>>, <<5112, 5117>>,
     <<7296, 7304>>, <<7312, 7354>>, <<7357, 7359>>, <<7424, 7615>>, <<7680, 7957>>,
     <<7960, 7965>>, <<7968, 8005>>, <<8008, 8013>>, <<8016, 8023>>, <<8025, 8025>>,
     <<8027, 8027>>, <<8029, 8029>>, <<8031, 8061>>, <<8064, 8116>>, <<8118, 8124>>,
     <<8126, 8126>>, <<8130, 8132>>, <<8134, 8140>>, <<8144, 8147>>, <<8150, 8155>>,
     <<8160, 8172>>, <<8178, 8180>>, <<8182, 8188>>, <<8305, 8305>>, <<8319, 8319>>,
     <<8336, 8348>>, <<8450, 8450>>, <<8455, 8455>>, <<8458, 8467>>, <<8469, 8469>>,
     <<8473, 8477>>, <<8484, 8484>>, <<8486, 8486>>, <<8488, 8488>>, <<8490, 8493>>,
     <<8495, 8500>>, <<8505, 8505>>, <<8508, 8511>>, <<8517, 8521>>, <<8526, 8526>>,
     <<8544, 8575>>, <<8579, 8580>>, <<9398, 9449>>, <<11264, 11492>>, <<11499, 11502>>,
     <<11506, 11507>>, <<11520, 11557>>, <<11559, 11559>>, <<11565, 11565>>, <<42560, 42605>>,
     <<42624, 42653>>, <<42786, 42887>>, <<42891, 42894>>, <<42896, 42954>>, <<42960, 42961>>,
     <<42963, 42963>>, <<42965, 42969>>, <<42997, 42998>>, <<43000, 43002>>, <<43824, 43866>>,
     <<43868, 43880>>, <<43888, 43967>>, <<64256, 64262>>, <<64275, 64279>>, <<65313, 65338>>,
     <<65345, 65370>>, <<66560, 66639>>, <<66736, 66771>>, <<66776, 66811>>, <<66928, 66938>>,
     <<66940, 66954>>, <<66956, 66962>>, <<66964, 66965>>, <<66967, 66977>>, <<66979, 66993>>,
     <<66995, 67001>>, <<67003, 67004>>, <<67456, 67456>>, <<67459, 67461>>, <<67463, 67504>>,
     <<67506, 67514>>, <<68736, 68786>>, <<68800, 68850>>, <<71840, 71903>>, <<93760, 93823>>,
     <<119808, 119892>>, <<119894, 119964>>, <<119966, 119967>>, <<119970, 119970>>,
     <<119973, 119974>>, <<119977, 119980>>, <<119982, 119993>>, <<119995, 119995>>,
     <<119997, 120003>>, <<120005, 120069>>, <<120071, 120074>>, <<120077, 120084>>,
     <<120086, 120092>>, <<120094, 120121>>, <<120123, 120126>>, <<120128, 120132>>,
     <<120134, 120134>>, <<120138, 120144>>, <<120146, 120485>>, <<120488, 120512>>,
     <<120514, 120538>>, <<120540, 120570>>, <<120572, 120596>>, <<120598, 120628>>,
     <<120630, 120654>>, <<120656, 120686>>, <<120688, 120712>>, <<120714, 120744>>,
     <<120746, 120770>>, <<120772, 120779>>, <<122624, 122633>>, <<122635, 122654>>,
     <<125184, 125251>>, <<127280, 127305>>, <<127312, 127337>>, <<127344, 127369>>}

Cased == InRanges(CasedRanges)

CaseIgnorableRanges ==
    {<<39, 39>>, <<46, 46>>, <<58, 58>>, <<94, 94>>, <<96, 96>>, <<168, 168>>, <<173, 173>>,
     <<175, 175>>, <<180, 180>>, <<183, 184>>, <<688, 879>>, <<884, 885>>, <<890, 890>>,
     <<900, 901>>, <<903, 903>>, <<1155, 1161>>, <<1369, 1369>>, <<1375, 1375>>, <<1425, 1469>>,
     <<1471, 1471>>, <<1473, 1474>>, <<1476, 1477>>, <<1479, 1479>>, <<1524, 1524>>,
     <<1536, 1541>>, <<1552, 1562>>, <<1564, 1564>>, <<1600, 1600>>, <<1611, 1631>>,
     <<1648, 1648>>, <<1750, 1757>>, <<1759, 1768>>, <<1770, 1773>>, <<1807, 1807>>,
     <<1809, 1809>>, <<1840, 1866>>, <<1958, 1968>>, <<2027, 2037>>, <<2042, 2042>>,
     <<2045, 2045>>, <<2070, 2093>>, <<2137, 2139>>, <<2184, 2184>>, <<2192, 2193>>,
     <<2200, 2207>>, <<2249, 2306>>, <<2362, 2362>>, <<2364, 2364>>, <<2369, 2376>>,
     <<2381, 2381>>, <<2385, 2391>>, <<2402, 2403>>, <<2417, 2417>>, <<2433, 2433>>,
     <<2492, 2492>>, <<2497, 2500>>, <<2509, 2509>>, <<2530, 2531>>, <<2558, 2558>>,
     <<2561, 2562>>, <<2620, 2620>>, <<2625, 2626>>, <<2631, 2632>>, <<2635, 2637>>,
     <<2641, 2641>>, <<2672, 2673>>, <<2677, 2677>>, <<2689, 2690>>, <<2748, 2748>>,
     <<2753, 2757>>, <<2759, 2760>>, <<2765, 2765>>, <<2786, 2787>>, <<2810, 2815>>,
     <<2817, 2817>>, <<2876, 2876>>, <<2879, 2879>>, <<2881, 2884>>, <<2893, 2893>>,
     <<2901, 2902>>, <<2914, 2915>>, <<2946, 2946>>, <<3008, 3008>>, <<3021, 3021>>,
     <<3072, 3072>>, <<3076, 3076>>, <<3132, 3132>>, <<3134, 3136>>, <<3142, 3144>>,
     <<3146, 3149>>, <<3157, 3158>>, <<3170, 3171>>, <<3201, 3201>>, <<3260, 3260>>,
     <<3263, 3263>>, <<3270, 3270>>, <<3276, 3277>>, <<3298, 3299>>, <<3328, 3329>>,
     <<3387, 3388>>, <<3393, 3396>>, <<3405, 3405>>, <<3426, 3427>>, <<3457, 3457>>,
     <<3530, 3530>>, <<3538, 3540>>, <<3542, 3542>>, <<3633, 3633>>, <<3636, 3642>>,
     <<3654, 3662>>, <<3761, 3761>>, <<3764, 3772>>, <<3782, 3782>>, <<3784, 3789>>,
     <<3864, 3865>>, <<3893, 3893>>, <<3895, 3895>>, <<3897, 3897>>, <<3953, 3966>>,
     <<3968, 3972>>, <<3974, 3975>>, <<3981, 3991>>, <<3993, 4028>>, <<4038, 4038>>,
     <<4141, 4144>>, <<4146, 4151>>, <<4153, 4154>>, <<4157, 4158>>, <<4184, 4185>>,
     <<4190, 4192>>, <<4209, 4212>>, <<4226, 4226>>, <<4229, 4230>>, <<4237, 4237>>,
     <<4253, 4253>>, <<4348, 4348>>, <<4957, 4959>>, <<5906, 5908>>, <<5938, 5939>>,
     <<5970, 5971>>, <<6002, 6003>>, <<6068, 6069>>, <<6071, 6077>>, <<6086, 6086>>,
     <<6089, 6099>>, <<6103, 6103>>, <<6109, 6109>>, <<6155, 6159>>, <<6211, 6211>>,
     <<6277, 6278>>, <<6313, 6313>>, <<6432, 6434>>, <<6439, 6440>>, <<6450, 6450>>,
     <<6457, 6459>>, <<6679, 6680>>, <<6683, 6683>>, <<6742, 6742>>, <<6744, 6750>>,
     <<6752, 6752>>, <<6754, 6754>>, <<6757, 6764>>, <<6771, 6780>>, <<6783, 6783>>,
     <<6823, 6823>>, <<6832, 6862>>, <<6912, 6915>>, <<6964, 6964>>, <<6966, 6970>>,
     <<6972, 6972>>, <<6978, 6978>>, <<7019, 7027>>, <<7040, 7041>>, <<7074, 7077>>,
     <<7080, 7081>>, <<7083, 7085>>, <<7142, 7142>>, <<7144, 7145>>, <<7149, 7149>>,
     <<7151, 7153>>, <<7212, 7219>>, <<7222, 7223>>, <<7288, 7293>>, <<7376, 7378>>,
     <<7380, 7392>>, <<7394, 7400>>, <<7405, 7405>>, <<7412, 7412>>, <<7416, 7417>>,
     <<7468, 7530>>, <<7544, 7544>>, <<7579, 7679>>, <<8125, 8125>>, <<8127, 8129>>,
     <<8141, 8143>>, <<8157, 8159>>, <<8173, 8175>>, <<8189, 8190>>, <<8203, 8207>>,
     <<8216, 8217>>, <<8228, 8228>>, <<8231, 8231>>, <<8234, 8238>>, <<8288, 8292>>,
     <<8294, 8303>>, <<8305, 8305>>, <<8319, 8319>>, <<8336, 8348>>, <<8400, 8432>>,
     <<11388, 11389>>, <<11503, 11505>>, <<11631, 11631>>, <<11647, 11647>>, <<11744, 11775>>,
     <<11823, 11823>>, <<12293, 12293>>, <<12330, 12333>>, <<12337, 12341>>, <<12347, 12347>>,
     <<12441, 12446>>, <<12540, 12542>>, <<40981, 40981>>, <<42232, 42237>>, <<42508, 42508>>,
     <<42607, 42610>>, <<42612, 42621>>, <<42623, 42623>>, <<42652, 42655>>, <<42736, 42737>>,
     <<42752, 42785>>, <<42864, 42864>>, <<42888, 42890>>, <<42994, 42996>>, <<43000, 43001>>,
     <<43010, 43010>>, <<43014, 43014>>, <<43019, 43019>>, <<43045, 43046>>, <<43052, 43052>>,
     <<43204, 43205>>, <<43232, 43249>>, <<43263, 43263>>, <<43302, 43309>>, <<43335, 43345>>,
     <<43392, 43394>>, <<43443, 43443>>, <<43446, 43449>>, <<43452, 43453>>, <<43471, 43471>>,
     <<43493, 43494>>, <<43561, 43566>>, <<43569, 43570>>, <<43573, 43574>>, <<43587, 43587>>,
     <<43596, 43596>>, <<43632, 43632>>, <<43644, 43644>>, <<43696, 43696>>, <<43698, 43700>>,
     <<43703, 43704>>, <<43710, 43711>>, <<43713, 43713>>, <<43741, 43741>>, <<43756, 43757>>,
     <<43763, 43764>>, <<43766, 43766>>, <<43867, 43871>>, <<43881, 43883>>, <<44005, 44005>>,
     <<44008, 44008>>, <<44013, 44013>>, <<64286, 64286>>, <<64434, 64450>>, <<65024, 65039>>,
     <<65043, 65043>>, <<65056, 65071>>, <<65106, 65106>>, <<65109, 65109>>, <<65279, 65279>>,
     <<65287, 65287>>, <<65294, 65294>>, <<65306, 65306>>, <<65342, 65342>>, <<65344, 65344>>,
     <<65392, 65392>>, <<65438, 65439>>, <<65507, 65507>>, <<65529, 65531>>, <<66045, 66045>>,
     <<66272, 66272>>, <<66422, 66426>>, <<67456, 67461>>, <<67463, 67504>>, <<67506, 67514>>,
     <<68097, 68099>>, <<68101, 68102>>, <<68108, 68111>>, <<68152, 68154>>, <<68159, 68159>>,
     <<68325, 68326>>, <<68900, 68903>>, <<69291, 69292>>, <<69446, 69456>>, <<69506, 69509>>,
     <<69633, 69633>>, <<69688, 69702>>, <<69744, 69744>>, <<69747, 69748>>, <<69759, 69761>>,
     <<69811, 69814>>, <<69817, 69818>>, <<69821, 69821>>, <<69826, 69826>>, <<69837, 69837>>,
     <<69888, 69890>>, <<69927, 69931>>, <<69933, 69940>>, <<70003, 70003>>, <<70016, 70017>>,
     <<70070, 70078>>, <<70089, 70092>>, <<70095, 70095>>, <<70191, 70193>>, <<70196, 70196>>,
     <<70198, 70199>>, <<70206, 70206>>, <<70367, 70367>>, <<70371, 70378>>, <<70400, 70401>>,
     <<70459, 70460>>, <<70464, 70464>>, <<70502, 70508>>, <<70512, 70516>>, <<70712, 70719>>,
     <<70722, 70724>>, <<70726, 70726>>, <<70750, 70750>>, <<70835, 70840>>, <<70842, 70842>>,
     <<70847, 70848>>, <<70850, 70851>>, <<71090, 71093>>, <<71100, 71101>>, <<71103, 71104>>,
     <<71132, 71133>>, <<71219, 71226>>, <<71229, 71229>>, <<71231, 71232>>, <<71339, 71339>>,
     <<71341, 71341>>, <<71344, 71349>>, <<71351, 71351>>, <<71453, 71455>>, <<71458, 71461>>,
     <<71463, 71467>>, <<71727, 71735>>, <<71737, 71738>>, <<71995, 71996>>, <<71998, 71998>>,
     <<72003, 72003>>, <<72148, 72151>>, <<72154, 72155>>, <<72160, 72160>>, <<72193, 72202>>,
     <<72243, 72248>>, <<72251, 72254>>, <<72263, 72263>>, <<72273, 72278>>, <<72281, 72283>>,
     <<72330, 72342>>, <<72344, 72345>>, <<72752, 72758>>, <<72760, 72765>>, <<72767, 72767>>,
     <<72850, 72871>>, <<72874, 72880>>, <<72882, 72883>>, <<72885, 72886>>, <<73009, 73014>>,
     <<73018, 73018>>, <<73020, 73021>>, <<73023, 73029>>, <<73031, 73031>>, <<73104, 73105>>,
     <<73109, 73109>>, <<73111, 73111>>, <<73459, 73460>>, <<78896, 78904>>, <<92912, 92916>>,
     <<92976, 92982>>, <<92992, 92995>>, <<94031, 94031>>, <<94095, 94111>>, <<94176, 94177>>,
     <<94179, 94180>>, <<110576, 110579>>, <<110581, 110587>>, <<110589, 110590>>,
     <<113821, 113822>>, <<113824, 113827>>, <<118528, 118573>>, <<118576, 118598>>,
     <<119143, 119145>>, <<119155, 119170>>, <<119173, 119179>>, <<119210, 119213>>,
     <<119362, 119364>>, <<121344, 121398>>, <<121403, 121452>>, <<121461, 121461>>,
     <<121476, 121476>>, <<121499, 121503>>, <<121505, 121519>>, <<122880, 122886>>,
     <<122888, 122904>>, <<122907, 122913>>, <<122915, 122916>>, <<122918, 122922>>,
     <<123184, 123197>>, <<123566, 123566>>, <<123628, 123631>>, <<125136, 125142>>,
     <<125252, 125259>>, <<127995, 127999>>, <<917505, 917505>>, <<917536, 917631>>,
     <<917760, 917999>>}

CaseIgnorable == InRanges(CaseIgnorableRanges)

\* the capital sigma at i of s is lower-cased to the final form: a cased
\* character stands before it and none after it, the ignorable ones skipped
FinalSigma(s, i) ==
    LET before == {j \in 1..(i - 1) : Ch(s, j) \notin CaseIgnorable}
        after  == {j \in (i + 1)..Len(s) : Ch(s, j) \notin CaseIgnorable}
    IN  /\ before # {} /\ Ch(s, Greatest(before)) \in Cased
        /\ (after = {} \/ Ch(s, Least(after)) \notin Cased)

\* str.lower()
Lower(s) ==
    Join([i \in 1..Len(s) |->
            IF Ch(s, i) = CapitalSigma
            THEN (IF FinalSigma(s, i) THEN <<SmallFinalSigma>> ELSE <<SmallSigma>>)
            ELSE LowerCh(Ch(s, i))])

\* re.sub(r"\W+", "", s): the word characters of s
KeepWord(s) == Join([i \in 1..Len(s) |-> IF IsWord(Ch(s, i)) THEN <<Ch(s, i)>> ELSE <<>>])

\* re.sub of a character class by "": s without the characters in drop
DropChars(s, drop) ==
    Join([i \in 1..Len(s) |-> IF Ch(s, i) \in drop THEN <<>> ELSE <<Ch(s, i)>>])

\* the last position of s that holds no whitespace, or 0
LastNonSpace(s) ==
    LET at == {j \in 1..Len(s) : ~IsSpace(Ch(s, j))}
    IN  IF at = {} THEN 0 ELSE Greatest(at)

\* str.strip(): without leading and trailing whitespace
Strip(s) == SubSeq(s, SkipSpace(s, 1), LastNonSpace(s))

\* sub in s
Contains(s, sub) == \E i \in 1..(Len(s) + 1) : LitAt(s, sub, i)

\* s.split(sep)[-1]: what follows the last occurrence of sep in s (all of s when
\* sep does not occur)
SplitLast(s, sep) ==
    LET at == {i \in 1..Len(s) : LitAt(s, sep, i)}
    IN  IF at = {} THEN s
        ELSE SubSeq(s, Greatest(at) + Len(sep), Len(s))

\* the position after the run of word characters that starts at i (i itself
\* when there is none)
SkipWord(s, i) ==
    LET stops == {j \in i..(Len(s) + 1) : ~IsWord(Ch(s, j))}
    IN  IF i > Len(s) THEN i ELSE Least(stops)

(***************************************************************************)
(* clean_protected_case                                                    *)
(***************************************************************************)
\* One match of  (title\s*=\s*)\{\{([A-Za-z])\}(.*?)\}  starting at i:
\* [ok, g1, g2, g3, end], end the position of the closing brace.
TitleMatchAt(s, i) ==
    LET eq   == SkipSpace(s, i + 5)
        open == SkipSpace(s, eq + 1)
        close == FindChar(s, Ord("}"), open + 4)
        ok   == /\ LitAt(s, Str("title"), i)
                /\ Ch(s, eq) = Ord("=")
                /\ Ch(s, open) = Ord("{")
                /\ Ch(s, open + 1) = Ord("{")
                /\ IsLetter(Ch(s, open + 2))
                /\ Ch(s, open + 3) = Ord("}")
                /\ close # 0
    IN  IF ok
        THEN [ok |-> TRUE, g1 |-> SubSeq(s, i, open - 1), g2 |-> <<Ch(s, open + 2)>>,
              g3 |-> SubSeq(s, open + 4, close - 1), end |-> close]
        ELSE [ok |-> FALSE, g1 |-> <<>>, g2 |-> <<>>, g3 |-> <<>>, end |-> 0]

\* re.sub of the title pattern from position i on: the text up to the leftmost
\* match is kept, the match is replaced by group 1, "{", group 2 + group 3, "}",
\* and the scan goes on after the match.
RECURSIVE MergeInitialFrom(_, _)
MergeInitialFrom(s, i) ==
    LET at == {j \in i..Len(s) : LitAt(s, Str("title"), j) /\ TitleMatchAt(s, j).ok}
    IN  IF at = {} THEN SubSeq(s, i, Len(s))
        ELSE LET m == TitleMatchAt(s, Least(at))
             IN  SubSeq(s, i, Least(at) - 1) \o m.g1 \o Str("{") \o m.g2 \o m.g3 \o Str("}")
                 \o MergeInitialFrom(s, m.end + 1)

MergeInitial(s) == MergeInitialFrom(s, 1)

\* \{([A-Za-z])\} matches at i. Two matches never share a character, so
\* re.sub replaces every one of them.
SingleAt(s, i) == Ch(s, i) = Ord("{") /\ IsLetter(Ch(s, i + 1)) /\ Ch(s, i + 2) = Ord("}")

\* re.sub(r"\{([A-Za-z])\}", r"\1", s): the braces of every match go
StripSingle(s) ==
    Join([i \in 1..Len(s) |->
            IF SingleAt(s, i) \/ (i > 2 /\ SingleAt(s, i - 2)) THEN <<>> ELSE <<Ch(s, i)>>])

clean_protected_case(bibtex_str) == StripSingle(MergeInitial(bibtex_str))

(***************************************************************************)
(* http_get                                                                *)
(***************************************************************************)
MAX_RETRIES == 3

BACKOFF_FACTOR == 1

\* the status http_get retries on
TooManyRequests == 429

\* the answer of a request that raised before any status arrived
\* (requests.get raising a transport error)
NoResponse == 0

\* resp.raise_for_status(): requests raises HTTPError for 4xx and 5xx
RaisesForStatus(status) == status >= 400 /\ status < 600

\* the exception that leaves http_get when its last request was answered by
\* status: the transport error of requests.get, or the HTTPError of
\* raise_for_status
RaisedAs(status) == IF status = NoResponse THEN "ConnectionError" ELSE "HTTPError"

\* The loop of http_get from one attempt on. resps[k] is the server's answer to
\* the k-th request of the call, waits the sleeps made so far. The outcome is
\* [kind, status, requests, waits]: kind "return" (a response is returned),
\* "raise" (HTTPError of that status, or the transport error), or "none" (the
\* function falls off its end and returns None).
RECURSIVE HttpAttempt(_, _, _)
HttpAttempt(resps, attempt, waits) ==
    IF attempt > MAX_RETRIES
    THEN \* after the loop: resp is the last response received
         LET last == resps[MAX_RETRIES]
         IN  [kind |-> IF RaisesForStatus(last) THEN "raise" ELSE "none",
              status |-> last, requests |-> MAX_RETRIES, waits |-> waits]
    ELSE LET status == resps[attempt]
         IN  IF status = NoResponse
             THEN [kind |-> "raise", status |-> status, requests |-> attempt,
                   waits |-> waits]
             ELSE IF status = TooManyRequests
             THEN HttpAttempt(resps, attempt + 1,
                              Append(waits, BACKOFF_FACTOR * (2 ^ (attempt - 1))))
             ELSE [kind |-> IF RaisesForStatus(status) THEN "raise" ELSE "return",
                   status |-> status, requests |-> attempt, waits |-> waits]

\* http_get with a slip (used to test the claims): retryAll retries on every
\* error status, not on 429 alone; finalRaise = FALSE leaves out the
\* raise_for_status after the loop.
RECURSIVE HttpAttemptSlip(_, _, _, _, _)
HttpAttemptSlip(resps, attempt, waits, retryAll, finalRaise) ==
    IF attempt > MAX_RETRIES
    THEN LET last == resps[MAX_RETRIES]
         IN  [kind |-> IF finalRaise /\ RaisesForStatus(last) THEN "raise" ELSE "none",
              status |-> last, requests |-> MAX_RETRIES, waits |-> waits]
    ELSE LET status == resps[attempt]
         IN  IF status = NoResponse
             THEN [kind |-> "raise", status |-> status, requests |-> attempt,
                   waits |-> waits]
             ELSE IF status = TooManyRequests \/ (retryAll /\ RaisesForStatus(status))
             THEN HttpAttemptSlip(resps, attempt + 1,
                                  Append(waits, BACKOFF_FACTOR * (2 ^ (attempt - 1))),
                                  retryAll, finalRaise)
             ELSE [kind |-> IF RaisesForStatus(status) THEN "raise" ELSE "return",
                   status |-> status, requests |-> attempt, waits |-> waits]

http_get_RetryAnyError(resps) == HttpAttemptSlip(resps, 1, <<>>, TRUE, TRUE)

http_get_NoFinalRaise(resps) == HttpAttemptSlip(resps, 1, <<>>, FALSE, FALSE)

http_get(resps) == HttpAttempt(resps, 1, <<>>)

(***************************************************************************)
(* search_doi_by_metadata                                                  *)
(***************************************************************************)
\* re.sub(r"[\\\{\}]", "", title).strip()
TitleClean(title) == Strip(DropChars(title, {Ord("\\"), Ord("{"), Ord("}")}))

\* normalize: re.sub(r"\W+", "", s).lower()
normalize(s) == Lower(KeepWord(s))

\* A candidate item of the registry's answer is [has, title, DOI]: has the keys
\* the item carries (of "title" and "DOI"), title its list of titles, DOI its
\* identifier.
\* item.get('title', [""]): the item's list of titles, the one empty str when it has no
\* such key
ItemTitles(item) == IF "title" \in item.has THEN item.title ELSE << <<>> >>

\* The loop over the candidates from the k-th on. The first title of an item
\* is taken by [0], which raises IndexError on an empty list; the DOI of the
\* first item whose normalized title is the target is returned by item['DOI'],
\* which raises KeyError when the item has none; ValueError after the last.
RECURSIVE FirstExactFrom(_, _, _)
FirstExactFrom(items, target_norm, k) ==
    IF k > Len(items) THEN [kind |-> "raise", exc |-> "ValueError", doi |-> <<>>]
    ELSE IF ItemTitles(items[k]) = <<>>
         THEN [kind |-> "raise", exc |-> "IndexError", doi |-> <<>>]
    ELSE IF normalize(ItemTitles(items[k])[1]) = target_norm
         THEN IF "DOI" \in items[k].has
              THEN [kind |-> "return", exc |-> "", doi |-> items[k].DOI]
              ELSE [kind |-> "raise", exc |-> "KeyError", doi |-> <<>>]
         ELSE FirstExactFrom(items, target_norm, k + 1)

FirstExact(items, target_norm) == FirstExactFrom(items, target_norm, 1)

\* search_doi_by_metadata(title, author) when the registry answers every request
\* of the call with status and, on success, with the candidate list items.
\* The author only goes into the query.
search_doi_by_metadata(title, status, items) ==
    LET title_clean == TitleClean(title)
        resp == http_get([k \in 1..MAX_RETRIES |-> status])
    IN  IF resp.kind # "return"
        THEN [kind |-> "raise", exc |-> RaisedAs(resp.status), doi |-> <<>>]
        ELSE IF items = <<>>
        THEN [kind |-> "raise", exc |-> "ValueError", doi |-> <<>>]
        ELSE FirstExact(items, normalize(title_clean))

(***************************************************************************)
(* extract_arxiv_doi: the identifier on a preprint abstract page           *)
(***************************************************************************)
\* One match of  href="(https?://doi.org/[^"]+)"  starting at i: the position
\* where group 1 starts and the position of the closing quote, or <<0, 0>>.
\* The dot of the pattern is any character but a line break.
HrefMatchAt(s, i) ==
    LET scheme == i + 6
        colon == IF Ch(s, scheme + 4) = Ord("s") THEN scheme + 5 ELSE scheme + 4
        path  == colon + 11
        quote == FindChar(s, Ord("\""), path)
        ok == /\ LitAt(s, Str("href=\"http"), i)
              /\ LitAt(s, Str("://doi"), colon)
              /\ Ch(s, colon + 6) \notin {NoChar, Ord("\n")}
              /\ LitAt(s, Str("org/"), colon + 7)
              /\ quote > path
    IN  IF ok THEN <<scheme, quote>> ELSE <<0, 0>>

\* re.search of the href pattern in the page, then .group(1).split('/')[-1]:
\* [found, doi]
ArxivPageDoi(page) ==
    LET at == {i \in 1..Len(page) : HrefMatchAt(page, i)[1] # 0}
    IN  IF at = {} THEN [found |-> FALSE, doi |-> <<>>]
        ELSE LET first == CHOOSE i \in at : \A other \in at : i <= other
                 m == HrefMatchAt(page, first)
             IN  [found |-> TRUE, doi |-> SplitLast(SubSeq(page, m[1], m[2] - 1), Str("/"))]

\* extract_arxiv_doi(arxiv_id) when the preprint site answers every request of
\* the call with status and, on success, with the page
extract_arxiv_doi(status, page) ==
    LET resp == http_get([k \in 1..MAX_RETRIES |-> status])
    IN  IF resp.kind # "return"
        THEN [kind |-> "raise", exc |-> RaisedAs(resp.status), doi |-> <<>>]
        ELSE IF ~ArxivPageDoi(page).found
        THEN [kind |-> "raise", exc |-> "ValueError", doi |-> <<>>]
        ELSE [kind |-> "return", exc |-> "", doi |-> ArxivPageDoi(page).doi]

(***************************************************************************)
(* fetch_bibtex_from_doi                                                   *)
(***************************************************************************)
\* the status on which the secondary registry is asked
NotFound == 404

\* what the primary service and the secondary registry serve for an identifier
PrimaryBody(doi) == Str("@article{p,\n title = {{N}ew {T}itle},\n doi = {") \o doi \o Str("}\n}\n")

SecondaryBody(doi) == Str("@article{s, title={{{A}}}, doi={") \o doi \o Str("}}\n")

\* fetch_bibtex_from_doi with a slip (used to test the claims): every HTTPError
\* of the primary fetch, not the 404 alone, leads to the secondary registry
fetch_bibtex_from_doi_AnyError(doi, primary, secondary) ==
    LET first == http_get([k \in 1..MAX_RETRIES |-> primary])
        second == http_get([k \in 1..MAX_RETRIES |-> secondary])
    IN  IF first.kind = "return"
        THEN [kind |-> "return", text |-> clean_protected_case(PrimaryBody(doi)),
              asked |-> <<"primary">>]
        ELSE IF first.status # NoResponse
        THEN IF second.kind = "return"
             THEN [kind |-> "return", text |-> clean_protected_case(SecondaryBody(doi)),
                   asked |-> <<"primary", "secondary">>]
             ELSE [kind |-> "raise", text |-> <<>>, asked |-> <<"primary", "secondary">>]
        ELSE [kind |-> "raise", text |-> <<>>, asked |-> <<"primary">>]

\* fetch_bibtex_from_doi(doi) when the primary service answers every request
\* with status primary and the secondary registry with status secondary:
\* [kind, text, asked], asked the endpoints a call of http_get went to. A
\* transport error is no HTTPError and passes the except clause.
fetch_bibtex_from_doi(doi, primary, secondary) ==
    LET first == http_get([k \in 1..MAX_RETRIES |-> primary])
        second == http_get([k \in 1..MAX_RETRIES |-> secondary])
    IN  IF first.kind = "return"
        THEN [kind |-> "return", text |-> clean_protected_case(PrimaryBody(doi)),
              asked |-> <<"primary">>]
        ELSE IF first.status # NoResponse /\ first.status = NotFound
        THEN IF second.kind = "return"
             THEN [kind |-> "return", text |-> clean_protected_case(SecondaryBody(doi)),
                   asked |-> <<"primary", "secondary">>]
             ELSE [kind |-> "raise", text |-> <<>>, asked |-> <<"primary", "secondary">>]
        ELSE [kind |-> "raise", text |-> <<>>, asked |-> <<"primary">>]

(***************************************************************************)
(* process_bib_file: the structured entries and the local renderings       *)
(***************************************************************************)
\* An entry is [ENTRYTYPE, ID, has, author, doi, title, url, year]: has the
\* names of the fields the record has (a field can be there and empty, as
\* year = {}), and a field the record does not have is the empty str.
\* structured.get(key), structured = {e['ID']: e for e in entries}: the last
\* entry with that ID, as a sequence of one entry, or <<>> for None
StructuredGet(parsed, key) ==
    LET at == {k \in 1..Len(parsed) : parsed[k].ID = key}
    IN  IF at = {} THEN <<>>
        ELSE <<parsed[CHOOSE k \in at : \A other \in at : other <= k]>>

\* datetime.date.today(), as the run sees it
TodayIso == Str("2026-10-29")

TodayYear == Str("2026")

\* s.replace('\n', ' ')
NewlinesToSpaces(s) == Join([i \in 1..Len(s) |-> IF Ch(s, i) = Ord("\n") THEN <<Ord(" ")>> ELSE <<Ch(s, i)>>])

\* the @misc record of branch 1
MiscText(key, e) ==
    LET title == Strip(NewlinesToSpaces(e.title))
        year  == IF "year" \in e.has THEN e.year ELSE TodayYear
    IN  Str("@misc{") \o key \o Str(",\n")
        \o Str("  author       = {") \o e.author \o Str("},\n")
        \o Str("  title        = {") \o title \o Str("},\n")
        \o Str("  howpublished = {\\url{") \o Strip(e.url) \o Str("}},\n")
        \o Str("  year         = {") \o year \o Str("},\n")
        \o Str("  note         = {Accessed: ") \o TodayIso \o Str("},\n")
        \o Str("}\n")

\* BibTexWriter().write(db) for a database of the one entry: the entry's type
\* and key, the fields it has in alphabetical order, a blank line after it
WriterField(e, name, value) ==
    IF name \in e.has THEN Str(",\n ") \o Str(name) \o Str(" = {") \o value \o Str("}") ELSE <<>>

WriterWrite(e) ==
    Str("@") \o e.ENTRYTYPE \o Str("{") \o e.ID
        \o WriterField(e, "author", e.author) \o WriterField(e, "doi", e.doi)
        \o WriterField(e, "title", e.title) \o WriterField(e, "url", e.url)
        \o WriterField(e, "year", e.year)
        \o Str("\n}\n\n")

(***************************************************************************)
(* process_bib_file: the boundary scan                                     *)
(***************************************************************************)
\* ^ under re.MULTILINE: the start of the text or just after a line break
LineStart(s, i) == i = 1 \/ Ch(s, i - 1) = Ord("\n")

\* @\w+\{ at i
MarkerAt(s, i) ==
    /\ Ch(s, i) = Ord("@")
    /\ SkipWord(s, i + 1) > i + 1
    /\ Ch(s, SkipWord(s, i + 1)) = Ord("{")

\* the lookahead (?=(^@\w+\{)|\Z) at i
BodyStopAt(s, i) == (LineStart(s, i) /\ MarkerAt(s, i)) \/ i = Len(s) + 1

\* the first position >= i at which the lookahead holds (the body is lazy)
BodyStop(s, i) == Least({j \in i..(Len(s) + 1) : BodyStopAt(s, j)})

\* One match of entry_pattern starting at i: [ok, key, start, end], start and
\* end Python's m.span() (0-based, end exclusive). [^,]+ runs to the first comma
\* after the opening brace and must not be empty.
EntryMatchAt(s, i) ==
    LET brace == SkipWord(s, i + 1)
        comma == FindChar(s, Ord(","), brace + 1)
        ok == MarkerAt(s, i) /\ comma > brace + 1
    IN  IF ok
        THEN [ok |-> TRUE, key |-> SubSeq(s, brace + 1, comma - 1),
              start |-> i - 1, end |-> BodyStop(s, comma + 1) - 1]
        ELSE [ok |-> FALSE, key |-> <<>>, start |-> 0, end |-> 0]

\* entry_pattern.finditer(raw_text) from position i on: the leftmost match, then
\* the matches of the text after it
RECURSIVE FinditerFrom(_, _)
FinditerFrom(s, i) ==
    LET at == {j \in i..Len(s) : Ch(s, j) = Ord("@") /\ EntryMatchAt(s, j).ok}
    IN  IF at = {} THEN <<>>
        ELSE LET m == EntryMatchAt(s, Least(at))
             IN  <<[key |-> m.key, start |-> m.start, end |-> m.end]>>
                     \o FinditerFrom(s, m.end + 1)

Finditer(s) == FinditerFrom(s, 1)

\* m.group(0)
Block(s, m) == SubSeq(s, m.start + 1, m.end)

(***************************************************************************)
(* process_bib_file: the identifier of a raw block                         *)
(***************************************************************************)
\* the dotless small i
DotlessSmallI == 305

\* re.IGNORECASE: the characters that match a letter of the field names DOI
\* and url. Each letter matches its two ASCII forms; the letter i also matches
\* the capital I with a dot above and the dotless small i.
IgnoreCase(c) ==
    IF c \in {Ord("I"), Ord("i")} THEN {Ord("I"), Ord("i"), DottedCapitalI, DotlessSmallI}
    ELSE IF c >= Ord("a") THEN {c - 32, c}
    ELSE {c, c + 32}

\* One match of  name\s*=\s*\{([^}]+)\}  (re.IGNORECASE) starting at i: the
\* positions of the first and last character of group 1, or <<0, 0>>
FieldMatchAt(s, name, i) ==
    LET eq    == SkipSpace(s, i + Len(name))
        open  == SkipSpace(s, eq + 1)
        close == FindChar(s, Ord("}"), open + 1)
        ok == /\ i + Len(name) - 1 <= Len(s)
              /\ \A k \in 1..Len(name) : Ch(s, i + k - 1) \in IgnoreCase(name[k])
              /\ Ch(s, eq) = Ord("=")
              /\ Ch(s, open) = Ord("{")
              /\ close > open + 1
    IN  IF ok THEN <<open + 1, close - 1>> ELSE <<0, 0>>

\* re.search of the field pattern in the block: [found, value]
FieldSearch(s, name) ==
    LET at == {i \in 1..Len(s) : FieldMatchAt(s, name, i)[1] # 0}
    IN  IF at = {} THEN [found |-> FALSE, value |-> <<>>]
        ELSE LET first == CHOOSE i \in at : \A other \in at : i <= other
                 m == FieldMatchAt(s, name, first)
             IN  [found |-> TRUE, value |-> SubSeq(s, m[1], m[2])]

\* the identifier the raw-block strategy finds in a block, the empty str for none: the
\* value of a doi field, else what follows doi.org/ in a url field that
\* mentions doi.org
RawBlockDoi(block) ==
    LET m1 == FieldSearch(block, Str("DOI"))
        m2 == FieldSearch(block, Str("url"))
    IN  IF m1.found THEN m1.value
        ELSE IF m2.found /\ Contains(m2.value, Str("doi.org"))
        THEN SplitLast(m2.value, Str("doi.org/"))
        ELSE <<>>

(***************************************************************************)
(* process_bib_file: the splice                                            *)
(***************************************************************************)
\* new_text[:start] + text + new_text[end:]
SpliceOne(new_text, r) ==
    SubSeq(new_text, 1, r.start) \o r.text \o SubSeq(new_text, r.end + 1, Len(new_text))

\* the replacement with the largest start among those at the indices in todo
LastByStart(rs, todo) ==
    CHOOSE k \in todo : \A other \in todo :
        \/ rs[other].start < rs[k].start
        \/ (rs[other].start = rs[k].start /\ k <= other)

\* the loop over sorted(replacements, key=start, reverse=True): the largest
\* start of those still to apply first (equal starts keep their order)
RECURSIVE ApplyDescending(_, _, _)
ApplyDescending(new_text, rs, todo) ==
    IF todo = {} THEN new_text
    ELSE LET k == LastByStart(rs, todo)
         IN  ApplyDescending(SpliceOne(new_text, rs[k]), rs, todo \ {k})

\* the loop with a slip (used to test the claims): the replacements applied in
\* the order they were collected, top to bottom
RECURSIVE ApplyInOrder(_, _, _)
ApplyInOrder(new_text, rs, k) ==
    IF k > Len(rs) THEN new_text
    ELSE ApplyInOrder(SpliceOne(new_text, rs[k]), rs, k + 1)

ApplyReplacements_TopDown(text, rs) == ApplyInOrder(text, rs, 1)

ApplyReplacements(text, rs) == ApplyDescending(text, rs, 1..Len(rs))

(***************************************************************************)
(* Bounded inputs                                                          *)
(***************************************************************************)
RECURSIVE SeqsUpTo(_, _)
SeqsUpTo(S, n) ==
    IF n = 0 THEN {<<>>}
    ELSE LET shorter == SeqsUpTo(S, n - 1)
         IN  shorter \cup {Append(q, x) : q \in shorter, x \in S}

\* the statuses a server answers with in the model
Statuses == {200, 304, 404, 429, 500, NoResponse}

\* the normalizer's texts: a field prefix followed by a body over NormAlphabet
MaxNormLen == 5

NormAlphabet == {Ord("{"), Ord("}"), Ord("A"), Ord(" ")}

NormPrefixes == {<<>>, Str("title = ")}

NormTexts == {p \o b : p \in NormPrefixes, b \in StringsUpTo(NormAlphabet, MaxNormLen)}

\* the metadata search's query titles and candidate lists
MaxItems == 2

\* 201 is the capital E with an acute accent and 233 the small one, 385 the
\* capital B with a hook and 595 the small one, 196736 an ideograph beyond the
\* basic plane
QueryTitles == {Str("{A} b"), Str(" A b\\c"), <<201>>, <<>>, <<385, 32, 196736>>}

CandidateTitles == {Str("a B"), Str("a-b."), Str("ab c"), Str("abd"), <<233, 46>>, <<595, 196736, 46>>, <<>>}

CandidateDois == {Str("1/x"), Str("2/y")}

\* an item with one title and an identifier
Item(title, doi) == [has |-> {"title", "DOI"}, title |-> <<title>>, DOI |-> doi]

\* the items the registry answers with: well-formed ones, one with an empty
\* list of titles, one with no title key and one with no DOI key
Candidates ==
    {Item(title, doi) : title \in CandidateTitles, doi \in CandidateDois}
        \cup {[has |-> {"title", "DOI"}, title |-> <<>>, DOI |-> Str("1/x")],
              [has |-> {"DOI"}, title |-> <<>>, DOI |-> Str("2/y")],
              [has |-> {"title"}, title |-> <<Str("a B")>>, DOI |-> <<>>]}

\* the input files of process_bib_file: what precedes the first record, then up
\* to MaxChunks records, each a stretch of text with the entries bibtexparser
\* returns for it (none for a record it does not parse, such as one of a
\* non-standard type)
MaxChunks == 2

Preambles == {<<>>, Str("% refs\n")}

NoField == [ENTRYTYPE |-> Str("article"), ID |-> <<>>, has |-> {}, author |-> <<>>, doi |-> <<>>,
            title |-> <<>>, url |-> <<>>, year |-> <<>>]

Chunks ==
    { [text |-> Str("@misc{m,url={http://e.com/p},title={{W}eb}}\n"),
       parsed |-> <<[NoField EXCEPT !.ENTRYTYPE = Str("misc"), !.ID = Str("m"), !.has = {"title", "url"},
                            !.url = Str("http://e.com/p"), !.title = Str("{W}eb")]>>],
      [text |-> Str("@misc{y,url={http://e.com/q},year={}}\n"),
       parsed |-> <<[NoField EXCEPT !.ENTRYTYPE = Str("misc"), !.ID = Str("y"), !.has = {"url", "year"},
                            !.url = Str("http://e.com/q")]>>],
      [text |-> Str("@article{a,url={https://arxiv.org/abs/12}}\n"),
       parsed |-> <<[NoField EXCEPT !.ID = Str("a"), !.has = {"url"},
                            !.url = Str("https://arxiv.org/abs/12")]>>],
      [text |-> Str("@article{t,title={{A} b}}\n"),
       parsed |-> <<[NoField EXCEPT !.ID = Str("t"), !.has = {"title"}, !.title = Str("{A} b")]>>],
      [text |-> Str("@article{d,doi={1/x}}\n"),
       parsed |-> <<[NoField EXCEPT !.ID = Str("d"), !.has = {"doi"}, !.doi = Str("1/x")]>>],
      [text |-> Str("@article{u,doi={1/x},url={http://e.com/p}}\n"),
       parsed |-> <<[NoField EXCEPT !.ID = Str("u"), !.has = {"doi", "url"}, !.doi = Str("1/x"),
                            !.url = Str("http://e.com/p")]>>],
      [text |-> Str("@online{r,doi={1/x}}\n"), parsed |-> <<>>],
      [text |-> Str("@online{w,url={https://doi.org/2/y}}\n"), parsed |-> <<>>],
      [text |-> Str("@online{n,title={{A}}}\n"), parsed |-> <<>>] }

RECURSIVE ConcatTexts(_)
ConcatTexts(chunks) ==
    IF chunks = <<>> THEN <<>> ELSE Head(chunks).text \o ConcatTexts(Tail(chunks))

RECURSIVE ConcatParsed(_)
ConcatParsed(chunks) ==
    IF chunks = <<>> THEN <<>> ELSE Head(chunks).parsed \o ConcatParsed(Tail(chunks))

\* the texts of the boundary scan: up to MaxPieces pieces, among them a record, a
\* marker that opens no record (no comma follows it), and what separates them
MaxPieces == 4

ScanPieces == {Str("@a{k,v}"), Str("@c{x}"), Str("\n"), Str(" "), Str("%")}

ScanTexts == {Join(pieces) : pieces \in SeqsUpTo(ScanPieces, MaxPieces)}

\* what the servers answer in a run: one status for all requests of a call
NetStatuses == {200, 404, 429, NoResponse}

\* the preprint abstract pages
PageBodies == {Str("<a href=\"https://doi.org/1/x\">doi</a>"), Str("<p>no link</p>")}

\* the candidate lists the metadata registry answers with
SearchAnswers ==
    { <<>>,
      <<Item(Str("A b"), Str("1/x"))>>,
      <<Item(Str("abd"), Str("1/x")), Item(Str("a B."), Str("2/y"))>>,
      <<[has |-> {"title", "DOI"}, title |-> <<>>, DOI |-> Str("2/y")], Item(Str("A b"), Str("1/x"))>> }

(***************************************************************************)
(* Initial conditions: each specification starts one part of the program   *)
(* and leaves the variables of the others idle.                            *)
(***************************************************************************)
NormIdle == n_text = <<>> /\ n_once = <<>> /\ n_twice = <<>> /\ n_pc = "idle"

NormStart == n_text \in NormTexts /\ n_once = <<>> /\ n_twice = <<>> /\ n_pc = "start"

HttpIdle == h_resps = <<>> /\ h_result = [kind |-> "idle"] /\ h_pc = "idle"

HttpStart ==
    /\ h_resps \in [1..MAX_RETRIES -> Statuses]
    /\ h_result = [kind |-> "idle"]
    /\ h_pc = "start"

SearchIdle ==
    /\ s_title = <<>> /\ s_status = 0 /\ s_items = <<>>
    /\ s_result = [kind |-> "idle"] /\ s_pc = "idle"

SearchStart ==
    /\ s_title \in QueryTitles
    /\ s_status \in {200, 500}
    /\ s_items \in SeqsUpTo(Candidates, MaxItems)
    /\ s_result = [kind |-> "idle"]
    /\ s_pc = "start"

FetchIdle ==
    /\ f_doi = <<>> /\ f_primary = 0 /\ f_secondary = 0
    /\ f_result = [kind |-> "idle"] /\ f_pc = "idle"

FetchStart ==
    /\ f_doi \in CandidateDois
    /\ f_primary \in Statuses /\ f_secondary \in Statuses
    /\ f_result = [kind |-> "idle"]
    /\ f_pc = "start"

ScanIdle == sc_text = <<>> /\ sc_spans = <<>> /\ sc_pc = "idle"

ScanStart == sc_text \in ScanTexts /\ sc_spans = <<>> /\ sc_pc = "start"

NoRepl == [some |-> FALSE, text |-> <<>>, by |-> "", doi |-> <<>>]

PipeIdle ==
    /\ run = 0
    /\ raw_text = <<>> /\ entries = <<>> /\ matches = <<>> /\ idx = 0 /\ pc = "idle"
    /\ repl = NoRepl /\ replacements = <<>> /\ used_dois = {}
    /\ out = [writes |-> 0, text |-> <<>>] /\ origins = <<>> /\ log = <<>>

\* where the loop body starts for the k-th span: at branch 1 when the parser
\* returned an entry for its key, at the raw-block strategy when not; after the
\* last span the loop is left
BodyStart(parsed, spans, k) ==
    IF k > Len(spans) THEN "splice"
    ELSE IF StructuredGet(parsed, spans[k].key) # <<>> THEN "b1" ELSE "raw"

PipeStart ==
    \E preamble \in Preambles, chunks \in SeqsUpTo(Chunks, MaxChunks) :
        /\ run = 1
        /\ raw_text = preamble \o ConcatTexts(chunks)
        /\ entries = ConcatParsed(chunks)
        /\ matches = Finditer(preamble \o ConcatTexts(chunks))
        /\ idx = 1
        /\ pc = BodyStart(ConcatParsed(chunks), Finditer(preamble \o ConcatTexts(chunks)), 1)
        /\ repl = NoRepl /\ replacements = <<>> /\ used_dois = {}
        /\ out = [writes |-> 0, text |-> <<>>] /\ origins = <<>> /\ log = <<>>

(***************************************************************************)
(* The normalizer applied once and then again                              *)
(***************************************************************************)
NormalizeOnce ==
    /\ n_pc = "start"
    /\ n_once' = clean_protected_case(n_text)
    /\ n_pc' = "once"
    /\ UNCHANGED <<n_text, n_twice>>
    /\ UNCHANGED <<httpVars, searchVars, fetchVars, scanVars, pipeVars>>

NormalizeTwice ==
    /\ n_pc = "once"
    /\ n_twice' = clean_protected_case(n_once)
    /\ n_pc' = "twice"
    /\ UNCHANGED <<n_text, n_once>>
    /\ UNCHANGED <<httpVars, searchVars, fetchVars, scanVars, pipeVars>>

NormInit == NormStart /\ HttpIdle /\ SearchIdle /\ FetchIdle /\ ScanIdle /\ PipeIdle

NormNext == NormalizeOnce \/ NormalizeTwice

SpecNorm == NormInit /\ [][NormNext]_vars

(***************************************************************************)
(* http_get against every sequence of server answers                       *)
(***************************************************************************)
HttpGetCall ==
    /\ h_pc = "start"
    /\ h_result' = http_get(h_resps)
    /\ h_pc' = "done"
    /\ UNCHANGED h_resps
    /\ UNCHANGED <<normVars, searchVars, fetchVars, scanVars, pipeVars>>

HttpInit == HttpStart /\ NormIdle /\ SearchIdle /\ FetchIdle /\ ScanIdle /\ PipeIdle

HttpNext == HttpGetCall

SpecHttp == HttpInit /\ [][HttpNext]_vars

(***************************************************************************)
(* search_doi_by_metadata against bounded titles and candidate lists       *)
(***************************************************************************)
SearchCall ==
    /\ s_pc = "start"
    /\ s_result' = search_doi_by_metadata(s_title, s_status, s_items)
    /\ s_pc' = "done"
    /\ UNCHANGED <<s_title, s_status, s_items>>
    /\ UNCHANGED <<normVars, httpVars, fetchVars, scanVars, pipeVars>>

SearchInit == SearchStart /\ NormIdle /\ HttpIdle /\ FetchIdle /\ ScanIdle /\ PipeIdle

SearchNext == SearchCall

SpecSearch == SearchInit /\ [][SearchNext]_vars

(***************************************************************************)
(* process_bib_file: the loop over the record spans, one action per branch *)
(* of the loop body, then the splice and the write                         *)
(***************************************************************************)
\* m of the loop, and ent (only used where ent is not None)
Cur == matches[idx]

Ent == StructuredGet(entries, Cur.key)[1]

Some(text, by, doi) == [some |-> TRUE, text |-> text, by |-> by, doi |-> doi]

Ev(ev, doi) == [rec |-> idx, ev |-> ev, doi |-> doi]

\* the membership test with a slip (used to test the claims): nothing counts
\* as claimed
Claimed_Never(doi, used) == FALSE

\* doi in used_dois, and used_dois.add(doi)
Claimed(doi, used) == doi \in used

\* used_dois.add with a slip (used to test the claims): nothing is recorded
Claim_Forgets(doi, used) == used

Claim(doi, used) == used \cup {doi}

\* where an exception that no except clause of the loop body catches takes the
\* run: out of process_bib_file, past the splice and the write
Uncaught_StillWrites == "splice"

Uncaught == "aborted"

\* the condition of branch 1 with a slip (used to test the claims): the
\* identifier field is not looked at
Branch1Applies_IgnoresDoi(e) ==
    LET urlf == Strip(e.url)
    IN  urlf # <<>> /\ ~Contains(urlf, Str("doi.org")) /\ ~Contains(urlf, Str("arxiv.org/abs"))

\* the condition of branch 1 with a slip (used to test the claims): every link
\* counts, a resolver link and a preprint link too
Branch1Applies_AnyLink(e) == e.doi = <<>> /\ Strip(e.url) # <<>>

\* not doi and urlf and "doi.org" not in urlf and "arxiv.org/abs" not in urlf
Branch1Applies(e) ==
    LET urlf == Strip(e.url)
    IN  e.doi = <<>> /\ urlf # <<>> /\ ~Contains(urlf, Str("doi.org"))
        /\ ~Contains(urlf, Str("arxiv.org/abs"))

\* 1) URL-only: format as @misc
Branch1UrlOnly ==
    /\ pc = "b1"
    /\ IF Branch1Applies(Ent)
       THEN /\ repl' = Some(clean_protected_case(MiscText(Cur.key, Ent)), "b1", <<>>)
            /\ log' = Append(log, Ev("misc", <<>>))
       ELSE UNCHANGED <<repl, log>>
    /\ pc' = "b2"
    /\ UNCHANGED <<raw_text, entries, matches, idx, replacements, used_dois, out, origins>>
    /\ UNCHANGED <<normVars, httpVars, searchVars, fetchVars, scanVars, run>>

\* if doi not in used_dois: repl = fetch_bibtex_from_doi(doi); used_dois.add(doi)
\* inside a try whose except clause swallows the exception: the servers answer
\* with primary and secondary. by names the branch.
\* the fetch and the claim with a slip (used to test the claims): the identifier
\* is claimed before its fetch, and stays claimed when the fetch raises
FetchGuarded_ClaimsFirst(doi, by, primary, secondary, before) ==
    \E f \in {fetch_bibtex_from_doi(doi, primary, secondary)} :
        /\ used_dois' = Claim(doi, used_dois)
        /\ IF f.kind = "return"
           THEN /\ repl' = Some(f.text, by, doi)
                /\ log' = before \o <<Ev("check_free", doi), Ev("fetch_ok", doi), Ev("claim", doi)>>
           ELSE /\ log' = before \o <<Ev("check_free", doi), Ev("fetch_raised", doi)>>
                /\ UNCHANGED repl

\* repl = fetch_bibtex_from_doi(doi); used_dois.add(doi)
FetchGuarded(doi, by, primary, secondary, before) ==
    \E f \in {fetch_bibtex_from_doi(doi, primary, secondary)} :
        IF f.kind = "return"
        THEN /\ repl' = Some(f.text, by, doi)
             /\ used_dois' = Claim(doi, used_dois)
             /\ log' = before \o <<Ev("check_free", doi), Ev("fetch_ok", doi), Ev("claim", doi)>>
        ELSE /\ log' = before \o <<Ev("check_free", doi), Ev("fetch_raised", doi)>>
             /\ UNCHANGED <<repl, used_dois>>

\* 2) ArXiv URL: resolve to DOI, fetch BibTeX
Branch2Arxiv ==
    /\ pc = "b2"
    /\ IF ~repl.some /\ Ent.doi = <<>> /\ Contains(Strip(Ent.url), Str("arxiv.org/abs"))
       THEN \E status \in NetStatuses, page \in PageBodies :
                \E found \in {extract_arxiv_doi(status, page)} :
                \E before \in {Append(log, Ev(IF found.kind = "return" THEN "page_ok"
                                               ELSE "page_raised", found.doi))} :
                    IF found.kind = "raise"
                    THEN log' = before /\ UNCHANGED <<repl, used_dois>>
                    ELSE IF Claimed(found.doi, used_dois)
                    THEN /\ log' = Append(before, Ev("check_claimed", found.doi))
                         /\ UNCHANGED <<repl, used_dois>>
                    ELSE \E primary \in NetStatuses, secondary \in NetStatuses :
                             FetchGuarded(found.doi, "b2", primary, secondary, before)
       ELSE UNCHANGED <<repl, used_dois, log>>
    /\ pc' = "b3"
    /\ UNCHANGED <<raw_text, entries, matches, idx, replacements, out, origins>>
    /\ UNCHANGED <<normVars, httpVars, searchVars, fetchVars, scanVars, run>>

\* 3) No DOI: metadata search with exact title match
Branch3Metadata ==
    /\ pc = "b3"
    /\ IF ~repl.some /\ Ent.doi = <<>>
       THEN \E status \in NetStatuses, items \in SearchAnswers :
                \E found \in {search_doi_by_metadata(Ent.title, status, items)} :
                \E before \in {Append(log, Ev(IF found.kind = "return" THEN "search_ok"
                                               ELSE "search_raised", found.doi))} :
                    IF found.kind = "raise"
                    THEN /\ log' = Append(before, Ev("print_search_failed", <<>>))
                         /\ UNCHANGED <<repl, used_dois>>
                    ELSE IF Claimed(found.doi, used_dois)
                    THEN /\ log' = before \o <<Ev("check_claimed", found.doi),
                                               Ev("print_skip", found.doi)>>
                         /\ UNCHANGED <<repl, used_dois>>
                    ELSE \E primary \in NetStatuses, secondary \in NetStatuses :
                             \E f \in {fetch_bibtex_from_doi(found.doi, primary, secondary)} :
                                 IF f.kind = "return"
                                 THEN FetchGuarded(found.doi, "b3", primary, secondary, before)
                                 ELSE /\ log' = before \o <<Ev("check_free", found.doi),
                                                            Ev("fetch_raised", found.doi),
                                                            Ev("print_search_failed", <<>>)>>
                                      /\ UNCHANGED <<repl, used_dois>>
       ELSE UNCHANGED <<repl, used_dois, log>>
    /\ pc' = "b4"
    /\ UNCHANGED <<raw_text, entries, matches, idx, replacements, out, origins>>
    /\ UNCHANGED <<normVars, httpVars, searchVars, fetchVars, scanVars, run>>

\* 4) Direct DOI present: fetch BibTeX. No try encloses the fetch: when it
\* raises, the exception leaves the loop and process_bib_file.
Branch4Doi ==
    /\ pc = "b4"
    /\ IF ~repl.some /\ Ent.doi # <<>>
       THEN IF Claimed(Ent.doi, used_dois)
            THEN /\ log' = Append(log, Ev("check_claimed", Ent.doi))
                 /\ pc' = "b5"
                 /\ UNCHANGED <<repl, used_dois>>
            ELSE \E primary \in NetStatuses, secondary \in NetStatuses :
                     \E f \in {fetch_bibtex_from_doi(Ent.doi, primary, secondary)} :
                         IF f.kind = "return"
                         THEN /\ FetchGuarded(Ent.doi, "b4", primary, secondary, log)
                              /\ pc' = "b5"
                         ELSE /\ log' = log \o <<Ev("check_free", Ent.doi),
                                                 Ev("fetch_raised", Ent.doi),
                                                 Ev("raised_out", Ent.doi)>>
                              /\ pc' = Uncaught
                              /\ UNCHANGED <<repl, used_dois>>
       ELSE pc' = "b5" /\ UNCHANGED <<repl, used_dois, log>>
    /\ UNCHANGED <<raw_text, entries, matches, idx, replacements, out, origins>>
    /\ UNCHANGED <<normVars, httpVars, searchVars, fetchVars, scanVars, run>>

\* 5) Fallback to original formatting
Branch5Fallback ==
    /\ pc = "b5"
    /\ IF ~repl.some
       THEN /\ repl' = Some(clean_protected_case(WriterWrite(Ent)), "b5", <<>>)
            /\ log' = Append(log, Ev("fallback", <<>>))
       ELSE UNCHANGED <<repl, log>>
    /\ pc' = "append"
    /\ UNCHANGED <<raw_text, entries, matches, idx, replacements, used_dois, out, origins>>
    /\ UNCHANGED <<normVars, httpVars, searchVars, fetchVars, scanVars, run>>

\* Raw block: try to extract DOI or URL and fetch, else clean
RawBlock ==
    /\ pc = "raw"
    /\ \E block \in {Block(raw_text, Cur)} :
       \E doi \in {RawBlockDoi(block)},
          cleaned \in {Some(clean_protected_case(block), "raw_clean", <<>>)} :
           IF doi # <<>> /\ ~Claimed(doi, used_dois)
           THEN \E primary \in NetStatuses, secondary \in NetStatuses :
                    \E f \in {fetch_bibtex_from_doi(doi, primary, secondary)} :
                        IF f.kind = "return"
                        THEN /\ repl' = Some(f.text, "raw", doi)
                             /\ used_dois' = Claim(doi, used_dois)
                             /\ log' = log \o <<Ev("check_free", doi), Ev("fetch_ok", doi),
                                                Ev("claim", doi)>>
                        ELSE /\ repl' = cleaned
                             /\ log' = log \o <<Ev("check_free", doi),
                                                Ev("fetch_raised", doi), Ev("raw_clean", <<>>)>>
                             /\ UNCHANGED used_dois
           ELSE /\ repl' = cleaned
                /\ log' = IF doi # <<>>
                          THEN log \o <<Ev("check_claimed", doi), Ev("raw_clean", <<>>)>>
                          ELSE Append(log, Ev("raw_clean", <<>>))
                /\ UNCHANGED used_dois
    /\ pc' = "append"
    /\ UNCHANGED <<raw_text, entries, matches, idx, replacements, out, origins>>
    /\ UNCHANGED <<normVars, httpVars, searchVars, fetchVars, scanVars, run>>

\* replacements.append({'start': start, 'end': end, 'text': repl}), and on to
\* the next span
AppendReplacement ==
    /\ pc = "append"
    /\ replacements' = Append(replacements,
                              [start |-> Cur.start, end |-> Cur.end, text |-> repl.text])
    /\ origins' = Append(origins, [by |-> repl.by, doi |-> repl.doi])
    /\ repl' = NoRepl
    /\ idx' = idx + 1
    /\ pc' = BodyStart(entries, matches, idx + 1)
    /\ UNCHANGED <<raw_text, entries, matches, used_dois, out, log>>
    /\ UNCHANGED <<normVars, httpVars, searchVars, fetchVars, scanVars, run>>

\* Apply replacements from bottom to top, and write the output file
WriteOutput ==
    /\ pc = "splice"
    /\ out' = [writes |-> out.writes + 1, text |-> ApplyReplacements(raw_text, replacements)]
    /\ pc' = "done"
    /\ UNCHANGED <<raw_text, entries, matches, idx, repl, replacements, used_dois,
                   origins, log>>
    /\ UNCHANGED <<normVars, httpVars, searchVars, fetchVars, scanVars, run>>

Init == PipeStart /\ NormIdle /\ HttpIdle /\ SearchIdle /\ FetchIdle /\ ScanIdle

Next ==
    \/ Branch1UrlOnly
    \/ Branch2Arxiv
    \/ Branch3Metadata
    \/ Branch4Doi
    \/ Branch5Fallback
    \/ RawBlock
    \/ AppendReplacement
    \/ WriteOutput

Spec == Init /\ [][Next]_vars

(***************************************************************************)
(* process_bib_file called again in the same process: used_dois is a       *)
(* module-level set, created at import and passed on from call to call     *)
(***************************************************************************)
\* the runs of one process
MaxRuns == 2

\* the input files of the later runs: one record
LaterFiles == {<<chunk>> : chunk \in Chunks}

\* a further call of process_bib_file, after the last one returned or raised
InvokeAgain ==
    /\ pc \in {"done", "aborted"}
    /\ run < MaxRuns
    /\ run' = run + 1
    /\ \E chunks \in LaterFiles :
           /\ raw_text' = ConcatTexts(chunks)
           /\ entries' = ConcatParsed(chunks)
           /\ matches' = Finditer(ConcatTexts(chunks))
           /\ pc' = BodyStart(ConcatParsed(chunks), Finditer(ConcatTexts(chunks)), 1)
    /\ idx' = 1
    /\ repl' = NoRepl /\ replacements' = <<>>
    /\ out' = [writes |-> 0, text |-> <<>>] /\ origins' = <<>> /\ log' = <<>>
    /\ UNCHANGED used_dois
    /\ UNCHANGED <<normVars, httpVars, searchVars, fetchVars, scanVars>>

NextRuns == Next \/ InvokeAgain

SpecRuns == Init /\ [][NextRuns]_vars

(***************************************************************************)
(* fetch_bibtex_from_doi against every pair of answers of the two services *)
(***************************************************************************)
FetchCall ==
    /\ f_pc = "start"
    /\ f_result' = fetch_bibtex_from_doi(f_doi, f_primary, f_secondary)
    /\ f_pc' = "done"
    /\ UNCHANGED <<f_doi, f_primary, f_secondary>>
    /\ UNCHANGED <<normVars, httpVars, searchVars, scanVars, pipeVars>>

FetchInit == FetchStart /\ NormIdle /\ HttpIdle /\ SearchIdle /\ ScanIdle /\ PipeIdle

FetchNext == FetchCall

SpecFetch == FetchInit /\ [][FetchNext]_vars

(***************************************************************************)
(* The boundary scan of process_bib_file on bounded texts                  *)
(***************************************************************************)
ScanCall ==
    /\ sc_pc = "start"
    /\ sc_spans' = Finditer(sc_text)
    /\ sc_pc' = "done"
    /\ UNCHANGED sc_text
    /\ UNCHANGED <<normVars, httpVars, searchVars, fetchVars, pipeVars>>

ScanInit == ScanStart /\ NormIdle /\ HttpIdle /\ SearchIdle /\ FetchIdle /\ PipeIdle

ScanNext == ScanCall

SpecScan == ScanInit /\ [][ScanNext]_vars

(***************************************************************************)
(* The claims                                                              *)
(***************************************************************************)
\* the text between the k-th span of the boundary scan and the span before it
\* (the start of the input for the first), then the k-th replacement text, and so
\* on to the end of the input: the output read from left to right
RECURSIVE LeftToRight(_, _)
LeftToRight(k, from) ==
    IF k > Len(matches) THEN SubSeq(raw_text, from + 1, Len(raw_text))
    ELSE SubSeq(raw_text, from + 1, matches[k].start) \o replacements[k].text
             \o LeftToRight(k + 1, matches[k].end)

\* C1: when process_bib_file completes, the output is the input with every span
\* of the boundary scan replaced once by that record's replacement text, and
\* every character outside the spans kept in place, whatever the lengths of the
\* replacement texts.
C1_SpliceKeepsTheRest ==
    pc = "done" =>
        /\ Len(replacements) = Len(matches)
        /\ out.text = LeftToRight(1, 0)

\* C1's case: a file with a preamble and two records, the first replaced by a
\* text of another length than its span, has been written.
C1_Witness ==
    /\ pc = "done" /\ out.writes = 1
    /\ Len(matches) = 2 /\ matches[1].start > 0
    /\ Len(replacements[1].text) # matches[1].end - matches[1].start
    /\ replacements[2].text # Block(raw_text, matches[2])

\* the branches whose replacement is a fetched citation
FetchedBy == {"b2", "b3", "b4", "raw"}

\* the origin of every replacement given so far, the current record's included
Given ==
    origins \o (IF repl.some THEN <<[by |-> repl.by, doi |-> repl.doi]>> ELSE <<>>)

\* C2: within one run no two records' replacements are both fetched citations
\* of the same identifier, whichever branches resolved them.
C2_OneCitationPerIdentifier ==
    \A i, j \in 1..Len(Given) :
        (i < j /\ Given[i].by \in FetchedBy /\ Given[j].by \in FetchedBy)
            => Given[i].doi # Given[j].doi

\* C2's case: a parsed record got the fetched citation of 1/x through branch 4
\* and a later raw block naming 1/x got its own text cleaned, no citation.
C2_Witness ==
    /\ pc = "done" /\ Len(origins) = 2
    /\ origins[1] = [by |-> "b4", doi |-> Str("1/x")]
    /\ matches[2].key = Str("r") /\ origins[2].by = "raw_clean"

\* the events of a request to the canonical-citation endpoint
FetchEvents == {"fetch_ok", "fetch_raised"}

\* C3: of two records of one run that resolve to the same identifier the second
\* never issues a request to the canonical-citation endpoint, whether the
\* first record's fetch returned or raised.
C3_NoSecondFetch ==
    \A i, j \in 1..Len(log) :
        (i < j /\ log[i].ev \in FetchEvents /\ log[j].ev \in FetchEvents
               /\ log[i].doi = log[j].doi)
            => log[i].rec = log[j].rec

\* C4: the normalizer is idempotent: a second application changes nothing.
C4_Idempotent == n_pc = "twice" => n_twice = n_once

\* what the parser returned for the k-th span: one entry or none
Parsed(k) == IF k \in 1..Len(matches) THEN StructuredGet(entries, matches[k].key) ELSE <<>>

\* a parsed record with an identifier field and a link field
HasBoth(e) == e.doi # <<>> /\ e.url # <<>>

\* C5: a parsed record with both an identifier and a link never gets the @misc
\* replacement of branch 1: its replacement comes from branch 4, or from the
\* fallback after its identifier was found claimed.
C5_IdentifierBeforeLink ==
    /\ \A e \in {Parsed(idx)[k] : k \in 1..Len(Parsed(idx))} :
          (pc \in {"b2", "b3", "b4", "b5", "append"} /\ HasBoth(e)) => repl.by # "b1"
    /\ \A k \in 1..Len(origins) :
          \A e \in {Parsed(k)[n] : n \in 1..Len(Parsed(k))} :
              HasBoth(e) =>
                  \/ origins[k].by = "b4"
                  \/ /\ origins[k].by = "b5"
                     /\ \E i \in 1..Len(log) :
                            log[i] = [rec |-> k, ev |-> "check_claimed", doi |-> e.doi]

\* C5's case: two records with identifier 1/x and a plain link: the first got
\* the citation of branch 4, the second, its identifier claimed, the fallback.
C5_Witness ==
    /\ Len(origins) = 2
    /\ matches[1].key = Str("u") /\ matches[2].key = Str("u")
    /\ origins[1].by = "b4" /\ origins[2].by = "b5"

\* the word characters of a title, lower-cased: the form in which the claims
\* compare titles
WordForm(title) == Lower(KeepWord(title))

\* the title of a candidate as the claims read it: the first of its titles, the empty str
\* when it has none
TitleOf(item) == IF "title" \in item.has /\ item.title # <<>> THEN item.title[1] ELSE <<>>

\* the candidates of the answered list whose title matches the query exactly
ExactMatches == {k \in 1..Len(s_items) : WordForm(TitleOf(s_items[k])) = WordForm(s_title)}

\* C6: when the registry answers with candidates that each have an identifier,
\* search_doi_by_metadata returns the DOI of the first candidate whose
\* normalized title equals the normalized query title, and raises no-match
\* when the list is empty or holds no exact match.
C6_FirstExactMatch ==
    (s_pc = "done" /\ s_status = 200 /\ \A k \in 1..Len(s_items) : "DOI" \in s_items[k].has) =>
        IF ExactMatches = {}
        THEN s_result.kind = "raise" /\ s_result.exc = "ValueError"
        ELSE /\ s_result.kind = "return"
             /\ \E k \in ExactMatches :
                    /\ \A other \in ExactMatches : k <= other
                    /\ s_result.doi = s_items[k].DOI

\* a status requests counts as ok (Response.ok): below 400
OkStatus(status) == status >= 200 /\ status < 400

\* C7: one call issues at most 3 requests, issues a further request only after
\* a 429, and what it returns is the first successful response it received.
C7_BoundedRetryOn429 ==
    h_pc = "done" =>
        /\ h_result.requests >= 1 /\ h_result.requests <= 3
        /\ \A k \in 1..(h_result.requests - 1) : h_resps[k] = 429
        /\ h_result.kind = "return" <=> OkStatus(h_resps[h_result.requests])
        /\ h_result.kind = "return" =>
              /\ h_result.status = h_resps[h_result.requests]
              /\ \A k \in 1..(h_result.requests - 1) : ~OkStatus(h_resps[k])

\* C7's case: two 429 answers, then a success that the third request returns.
C7_Witness ==
    /\ h_pc = "done"
    /\ h_resps = <<429, 429, 200>>
    /\ h_result.requests = 3 /\ h_result.kind = "return" /\ h_result.status = 200

\* C8: a non-success status other than 429 is raised at once, with no further
\* request and no wait after it; three 429 answers end in the last one being
\* raised; the call never returns an error response and never returns nothing.
C8_RaisesOnFailure ==
    h_pc = "done" =>
        /\ \A k \in 1..3 :
              ( /\ \A before \in 1..(k - 1) : h_resps[before] = 429
                /\ ~OkStatus(h_resps[k]) /\ h_resps[k] \notin {429, NoResponse} ) =>
              ( /\ h_result.kind = "raise" /\ h_result.status = h_resps[k]
                /\ h_result.requests = k
                /\ Len(h_result.waits) = k - 1 )
        /\ (\A k \in 1..3 : h_resps[k] = 429) =>
              (h_result.kind = "raise" /\ h_result.status = 429 /\ h_result.requests = 3)
        /\ h_result.kind = "return" => OkStatus(h_result.status)
        /\ h_result.kind # "none"

\* C8's case: every attempt is answered 429 and the call raises after the
\* waits of 1, 2 and 4 seconds.
C8_Witness ==
    /\ h_pc = "done"
    /\ h_resps = <<429, 429, 429>>
    /\ h_result.kind = "raise" /\ h_result.status = 429
    /\ h_result.waits = <<1, 2, 4>>

\* the events of a network call that raised
RaisedEvents == {"page_raised", "search_raised", "fetch_raised"}

\* C9: a failing network call in branch 2, 3 or 4 of a parsed record is caught
\* in its branch: no error leaves the loop, and a record none of whose branches
\* produced a citation gets the fallback re-rendering.
C9_ErrorsFallThrough ==
    /\ pc # "aborted"
    /\ \A i \in 1..Len(log) : log[i].ev # "raised_out"
    /\ \A k \in 1..Len(origins) :
          (/\ Parsed(k) # <<>>
           /\ \E i \in 1..Len(log) : log[i].rec = k /\ log[i].ev \in RaisedEvents
           /\ origins[k].by \notin FetchedBy) => origins[k].by = "b5"

\* C10: the output is written at most once, only after a replacement was
\* computed for every record of the boundary scan, and not at all when a
\* record's resolution raised out of the loop.
C10_WrittenOnceAtTheEnd ==
    /\ out.writes <= 1
    /\ out.writes = 1 => (pc = "done" /\ Len(replacements) = Len(matches))
    /\ (\E i \in 1..Len(log) : log[i].ev = "raised_out") => out.writes = 0

\* C10's case: every record of a two-record file was resolved, the second by
\* the fallback after a fetch of branch 3 raised, and the file was written once.
C10_Witness ==
    /\ pc = "done" /\ out.writes = 1
    /\ Len(matches) = 2 /\ Len(replacements) = 2
    /\ origins[2].by = "b5"
    /\ \E i \in 1..Len(log) : log[i].rec = 2 /\ log[i].ev = "fetch_raised"

\* the identifier an abstract page links to: what follows the resolver domain in
\* the first href of the page that points at it
LinkedIdentifier(page) ==
    LET at == {i \in 1..Len(page) : HrefMatchAt(page, i)[1] # 0}
        m == HrefMatchAt(page, Least(at))
    IN  SplitLast(SubSeq(page, m[1], m[2] - 1), Str("doi.org/"))

\* the pages of the preprint site that hold a link to the resolver
LinkedPages == {page \in PageBodies : ArxivPageDoi(page).found}

\* C11: the identifier extract_arxiv_doi returns for a page with a resolver link
\* is the full identifier after the resolver domain, prefix and suffix, and the
\* preprint branch fetches and claims exactly that identifier.
C11_FullIdentifier ==
    /\ \A i \in 1..Len(log) :
          log[i].ev = "page_ok" => \E page \in LinkedPages : log[i].doi = LinkedIdentifier(page)
    /\ \A k \in 1..Len(Given) :
          Given[k].by = "b2" => \E page \in LinkedPages : Given[k].doi = LinkedIdentifier(page)

\* the events of a metadata search
SearchEvents == {"search_ok", "search_raised"}

\* the fallback re-rendering of the k-th record's structured fields
Rerendered(k) == clean_protected_case(WriterWrite(Parsed(k)[1]))

\* C12: a parsed record whose identifier is already claimed performs no fetch
\* for it; found claimed in branch 4 or after the metadata search of branch 3,
\* the record gets the normalized re-rendering of its own fields; found claimed
\* in the preprint branch, the record continues with branch 3.
C12_ClaimedFallsBack ==
    /\ \A i, j \in 1..Len(log) :
          (i < j /\ log[i].ev = "claim" /\ log[j].ev \in FetchEvents)
              => log[i].doi # log[j].doi
    /\ \A i \in 1..Len(log) :
          (log[i].ev = "check_claimed" /\ Parsed(log[i].rec) # <<>>) =>
              IF i > 1 /\ log[i - 1].rec = log[i].rec /\ log[i - 1].ev = "page_ok"
              THEN IF i = Len(log) THEN pc = "b3" /\ idx = log[i].rec
                   ELSE log[i + 1].rec = log[i].rec /\ log[i + 1].ev \in SearchEvents
              ELSE log[i].rec <= Len(origins) =>
                      /\ origins[log[i].rec].by = "b5"
                      /\ replacements[log[i].rec].text = Rerendered(log[i].rec)

\* C12's case: the second of two records with the identifier field 1/x found it
\* claimed by the first and got its own fields re-rendered.
C12_Witness ==
    /\ Len(origins) = 2
    /\ matches[1].key = Str("d") /\ matches[2].key = Str("d")
    /\ origins[1] = [by |-> "b4", doi |-> Str("1/x")]
    /\ origins[2].by = "b5"
    /\ replacements[2].text = Str("@article{d,\n doi = {1/x}\n}\n\n")
    /\ \E i \in 1..Len(log) : log[i] = [rec |-> 2, ev |-> "check_claimed", doi |-> Str("1/x")]

\* C13: the Dedup Guard is empty at the start of every run of process_bib_file,
\* the later ones of a process included: an identifier found claimed was
\* claimed earlier in the same run.
C13_EmptyAtRunStart ==
    /\ (pc \in {"b1", "raw", "splice"} /\ idx = 1 /\ log = <<>>) => used_dois = {}
    /\ \A i \in 1..Len(log) :
          log[i].ev = "check_claimed" =>
              \E j \in 1..(i - 1) : log[j].ev = "claim" /\ log[j].doi = log[i].doi

\* C14: wherever a record's identifier is found already claimed (preprint
\* branch, metadata branch, identifier-present branch, raw block), the
\* duplicate-skip notice for it is printed next, before the record's
\* replacement is recorded.
C14_SkipIsReported ==
    \A i \in 1..Len(log) :
        log[i].ev = "check_claimed" =>
            /\ i < Len(log)
            /\ log[i + 1] = [rec |-> log[i].rec, ev |-> "print_skip", doi |-> log[i].doi]

\* C15: fetch_bibtex_from_doi asks the secondary registry exactly when the
\* primary fetch failed with 404; every other failure of the primary fetch, three
\* 429 answers included, and a failure of the secondary fetch are raised; a
\* returned text is the served text passed through the normalizer.
C15_SecondaryOnlyOn404 ==
    f_pc = "done" =>
        /\ f_result.asked = IF f_primary = 404 THEN <<"primary", "secondary">>
                            ELSE <<"primary">>
        /\ OkStatus(f_primary) =>
              /\ f_result.kind = "return"
              /\ f_result.text = clean_protected_case(PrimaryBody(f_doi))
        /\ (~OkStatus(f_primary) /\ f_primary # 404) => f_result.kind = "raise"
        /\ (f_primary = 404 /\ OkStatus(f_secondary)) =>
              /\ f_result.kind = "return"
              /\ f_result.text = clean_protected_case(SecondaryBody(f_doi))
        /\ (f_primary = 404 /\ ~OkStatus(f_secondary)) => f_result.kind = "raise"
        /\ f_result.kind = "return" =>
              f_result.text \notin {PrimaryBody(f_doi), SecondaryBody(f_doi)}

\* C15's case: the primary service answered 404, the secondary registry 200, and
\* the secondary's text came back normalized.
C15_Witness ==
    /\ f_pc = "done" /\ f_doi = Str("1/x")
    /\ f_primary = 404 /\ f_secondary = 200
    /\ f_result = [kind |-> "return", text |-> Str("@article{s, title={{A}}, doi={1/x}}\n"),
                   asked |-> <<"primary", "secondary">>]

\* the run did ev for identifier doi while resolving the k-th record
Did(k, ev, doi) == \E i \in 1..Len(log) : log[i] = [rec |-> k, ev |-> ev, doi |-> doi]

\* the identifiers claimed while resolving the records before the k-th
ClaimedBefore(k) == {log[i].doi : i \in {j \in 1..Len(log) : log[j].ev = "claim" /\ log[j].rec < k}}

\* C16: a raw block with no identifier in its text, or whose identifier is
\* already claimed, or whose fetch raised, is replaced by exactly the normalizer
\* applied to its span text, with the Dedup Guard as it was and no error leaving
\* the record's resolution; a raw block is replaced by the fetched citation, and
\* its identifier claimed, only when the identifier was found, was unclaimed and
\* its fetch returned.
C16_RawBlockFallsBack ==
    /\ (pc = "append" /\ Parsed(idx) = <<>> /\ repl.by = "raw_clean")
           => used_dois = ClaimedBefore(idx)
    /\ \A k \in 1..Len(origins) :
        Parsed(k) = <<>> =>
            LET block == Block(raw_text, matches[k])
                doi == RawBlockDoi(block)
                after == ClaimedBefore(k + 1)
            IN  /\ ~\E i \in 1..Len(log) : log[i].rec = k /\ log[i].ev = "raised_out"
                /\ IF doi = <<>> \/ doi \in ClaimedBefore(k) \/ Did(k, "fetch_raised", doi)
                   THEN /\ origins[k].by = "raw_clean"
                        /\ replacements[k].text = clean_protected_case(block)
                        /\ after = ClaimedBefore(k)
                   ELSE /\ origins[k] = [by |-> "raw", doi |-> doi]
                        /\ Did(k, "fetch_ok", doi)
                        /\ replacements[k].text \in
                              {clean_protected_case(PrimaryBody(doi)),
                               clean_protected_case(SecondaryBody(doi))}
                        /\ after = ClaimedBefore(k) \cup {doi}
                        /\ doi \in used_dois

\* C16's case: the fetch for a raw block's identifier raised; the block was
\* replaced by its own normalized text and nothing was claimed.
C16_Witness ==
    /\ pc = "done" /\ Len(origins) = 1
    /\ matches[1].key = Str("r") /\ Parsed(1) = <<>>
    /\ Did(1, "fetch_raised", Str("1/x"))
    /\ origins[1].by = "raw_clean"
    /\ replacements[1].text = Str("@online{r,doi={1/x}}\n")
    /\ used_dois = {}

\* the positions of the log at which the k-th record's resolution is recorded
EventsOf(k) == {i \in 1..Len(log) : log[i].rec = k}

\* a link that is neither a resolver URL nor a preprint-abstract URL
PlainLink(url) == url # <<>> /\ ~Contains(url, Str("doi.org")) /\ ~Contains(url, Str("arxiv.org/abs"))

\* C17: the record that gets the synthesized @misc replacement has no
\* identifier field and a plain link; resolving it makes no network call and no
\* check or change of the Dedup Guard, and nothing of branches 2 to 5 is run
\* for it: the synthesized text is what is recorded.
C17_Branch1IsLocal ==
    /\ (pc \in {"b2", "b3", "b4", "b5", "append"} /\ repl.by = "b1") =>
          /\ used_dois = ClaimedBefore(idx)
          /\ \A i \in EventsOf(idx) : log[i].ev = "misc"
    /\ \A k \in 1..Len(origins) :
          origins[k].by = "b1" =>
              /\ Parsed(k) # <<>>
              /\ Parsed(k)[1].doi = <<>> /\ PlainLink(Strip(Parsed(k)[1].url))
              /\ \A i \in EventsOf(k) : log[i].ev = "misc"
              /\ ClaimedBefore(k + 1) = ClaimedBefore(k)
              /\ replacements[k].text =
                    clean_protected_case(MiscText(matches[k].key, Parsed(k)[1]))

\* C17's case: after a record whose citation was fetched and claimed, a record
\* with a plain link got the @misc text, with the Dedup Guard as the first
\* record left it.
C17_Witness ==
    /\ pc = "done" /\ Len(origins) = 2
    /\ origins[1] = [by |-> "b4", doi |-> Str("1/x")]
    /\ matches[2].key = Str("m") /\ origins[2].by = "b1"
    /\ used_dois = {Str("1/x")}
    /\ \A i \in EventsOf(2) : log[i].ev = "misc"

\* the positions of the scanned text at which an entry-open marker (@type{key,)
\* starts
Markers == {i \in 1..Len(sc_text) : Ch(sc_text, i) = Ord("@") /\ EntryMatchAt(sc_text, i).ok}

\* the end of a span that starts at marker i: just before the next marker, or
\* the end of the text
EndFor(i) ==
    IF \E j \in Markers : j > i
    THEN Least({j \in Markers : j > i}) - 1
    ELSE Len(sc_text)

\* C18: every entry-open marker of the text, wherever on its line, starts
\* exactly one span, every span starts at one and ends just before the next
\* marker or at the end of the text, and the spans are disjoint and ascending.
C18_SpanPerMarker ==
    sc_pc = "done" =>
        /\ {sc_spans[k].start + 1 : k \in 1..Len(sc_spans)} = Markers
        /\ Len(sc_spans) = Cardinality(Markers)
        /\ \A k \in 1..Len(sc_spans) : sc_spans[k].end = EndFor(sc_spans[k].start + 1)
        /\ \A k \in 1..(Len(sc_spans) - 1) : sc_spans[k].end <= sc_spans[k + 1].start

\* the records whose fetch of the identifier returned
FetchedOk(doi) == {k \in 1..Len(matches) : Did(k, "fetch_ok", doi)}

\* C19: records are resolved one at a time in source order: the events of the
\* run are in record order and none is of a record after the current one, the
\* replacements collected are those of the records before the current one in
\* order, the Dedup Guard at the start of a record is what the records before
\* it claimed, and the fetched citation of an identifier is given to the
\* earliest record whose fetch of it returned and to no later one.
C19_ResolvedInSourceOrder ==
    /\ \A i, j \in 1..Len(log) : i < j => log[i].rec <= log[j].rec
    /\ pc \notin {"done", "aborted"} =>
          /\ Len(replacements) = idx - 1
          /\ \A i \in 1..Len(log) : log[i].rec <= idx
    /\ \A k \in 1..Len(replacements) :
          replacements[k].start = matches[k].start /\ replacements[k].end = matches[k].end
    /\ pc = "b1" => used_dois = ClaimedBefore(idx)
    /\ used_dois = ClaimedBefore(idx + 1)
    /\ \A k \in 1..Len(Given) :
          Given[k].by \in FetchedBy =>
              /\ k \in FetchedOk(Given[k].doi)
              /\ k = Least(FetchedOk(Given[k].doi))
    /\ \A k \in 1..Len(origins), doi \in CandidateDois :
          (FetchedOk(doi) # {} /\ k = Least(FetchedOk(doi))) =>
              origins[k].by \in FetchedBy /\ origins[k].doi = doi

C19_Witness ==
    /\ pc = "done" /\ Len(origins) = 2
    /\ Did(1, "fetch_raised", Str("1/x")) /\ Did(2, "fetch_ok", Str("1/x"))
    /\ origins[1].by \notin FetchedBy
    /\ origins[2].by \in FetchedBy /\ origins[2].doi = Str("1/x")

\* the events that a step adds to the log
NewEvents == {i \in 1..Len(log') : i > Len(log)}

\* one step of the run, seen from the Dedup Guard
GuardStep ==
    /\ used_dois \subseteq used_dois'
    /\ (\A i \in NewEvents : log'[i].ev # "fetch_ok") => used_dois' = used_dois
    /\ pc \in {"b1", "b5", "append", "splice", "done", "aborted"} => used_dois' = used_dois
    /\ used_dois' # used_dois =>
          \E doi \in used_dois' \ used_dois :
              /\ used_dois' = used_dois \cup {doi}
              /\ Len(log') >= Len(log) + 2
              /\ log'[Len(log')] = [rec |-> idx, ev |-> "claim", doi |-> doi]
              /\ log'[Len(log') - 1] = [rec |-> idx, ev |-> "fetch_ok", doi |-> doi]
              /\ \A i \in NewEvents : log'[i].ev # "fetch_raised" \/ log'[i].doi # doi
              /\ ~repl.some /\ repl'.some
              /\ repl'.by \in FetchedBy /\ repl'.doi = doi
              /\ \E primary \in NetStatuses, secondary \in NetStatuses :
                    /\ fetch_bibtex_from_doi(doi, primary, secondary).kind = "return"
                    /\ repl'.text = fetch_bibtex_from_doi(doi, primary, secondary).text

\* C20: in every step of a run the Dedup Guard keeps its elements, and it grows
\* only by the one identifier whose fetch has just returned in that step and
\* whose fetched text becomes the current record's replacement; a step in which
\* no fetch returned (a fetch that raised, a duplicate check, a metadata
\* search, a preprint page lookup, branch 1, the fallback, the append and the
\* splice) leaves it as it was.
C20_GuardGrowsOnlyByFetched == [][GuardStep]_vars

C20_Witness ==
    /\ pc = "done" /\ Len(origins) = 2
    /\ Did(1, "fetch_raised", Str("1/x")) /\ origins[1].by = "b5"
    /\ ~Did(2, "check_claimed", Str("2/y"))
    /\ origins[2].by = "b3" /\ origins[2].doi = Str("2/y")
    /\ used_dois = {Str("2/y")}

====
